---- MODULE Spec2Model ----
(***************************************************************************)
(* AthenaX: peer directory with role-based visibility, signaling relay and *)
(* chunked transfer.                                                       *)
(*                                                                         *)
(*   Spec       the v2 signaling server's peer directory (io.on            *)
(*              "connection", "set-mode", "disconnect") with the messages  *)
(*              it emits in flight to each connection.                     *)
(*   SpecRx     the client's receiving side (setupReceiverChannel,         *)
(*              handleReceivedMessage, assembleAndDownload) fed with       *)
(*              arbitrary frames by the remote end of the data channel.    *)
(*   SpecData   one direct transfer: startSendingFile on the sending page, *)
(*              the data channel with its send queue, and the receiving    *)
(*              page's handlers.                                           *)
(*   SpecClient two pages and the v2 server: mode changes, peer and file   *)
(*              selection, the Send click, offer and answer through the    *)
(*              server's relay, and the transfer that follows.             *)
(*   SpecIce    the same two pages and server while a session is set up:   *)
(*              the candidates each connection gathers, the server's       *)
(*              relay of them, the page's "ice-candidate" handler and      *)
(*              flushPendingCandidates.                                    *)
(*   SpecRelay  the v3 server's "file-chunk" relay between a sender that   *)
(*              waits for each acknowledgement, a client that does not,    *)
(*              and a target that may disconnect.                          *)
(*   SpecSignal the v2 server's "offer", "answer" and "ice-candidate"      *)
(*              handlers with clients that emit any of them to any id.     *)
(*   SpecCross  SpecIce's receiving page with two sending pages that both  *)
(*              offer to it and both gather candidates.                    *)
(*   SpecSelect a sending page's peer list and selection while it and the  *)
(*              receiving pages change mode and sockets drop.              *)
(*   SpecDir    the v2 directory with the set of live connections and the  *)
(*              handler that ran last, so that an ignored "set-mode" is a  *)
(*              step of its own.                                           *)
(*   SpecRemove peers.delete and the rebroadcast for any socket id, from   *)
(*              any directory the server can hold.                         *)
(*   SpecConfig GET /api/ice-servers under every environment and Metered   *)
(*              reply, and the page's getIceConfig against it or against   *)
(*              a server without that route.                               *)
(*   SpecLive   SpecData's transfer with nothing failing, under weak       *)
(*              fairness of the pages' event loops and the channel.        *)
(***************************************************************************)
EXTENDS Integers, Sequences, FiniteSets, TLC

\* ------------------------------------------------------------------ bounds
\* Connections the server accepts over a run; socket ids are 1..MaxConn and a
\* socket id is never reused.
MaxConn == 3
\* Messages in flight from the server to one connection.
MaxInbox == 2

\* Data channels a receiving client gets over a run.
MaxChannels == 2
\* Files in the receiving client's gallery.
MaxFiles == 1
\* The fileSize values a foreign metadata frame declares and the byteLength
\* values of a foreign binary frame: the handlers only compare the running
\* byte count with fileSize, so the values cover below, at and above it.
FileSizes == {0, 1, 2}
ChunkLens == {0, 1, 2}
\* Chunks the receiving client holds in rx.chunks.
MaxHeld == 2

\* Frames on their way from the sending end of a channel to the other end.
MaxWire == 1

Ids == 1..MaxConn
\* generateDeviceName draws adjective, noun and suffix at random, so two
\* connections may or may not get the same name. No handler branches on a
\* name; the draw is modelled by the connection's turn: odd connections draw
\* one name and even connections another, which gives both equal and
\* different names among the peers.
Names == <<"Swift-Falcon-3A", "Bold-Ghost-7F">>
generateDeviceName(turn) == Names[(turn % 2) + 1]
\* What a client may send as the argument of "set-mode".
ModeInputs == {"sender", "receiver", "bogus"}

VARIABLES
    peers,      \* the server's Map, in insertion order: <<[id, name, mode], ...>>
    nextId,     \* the socket id the next connection gets
    inbox,      \* inbox[id]: messages emitted to socket id, not yet delivered
    lastList,   \* lastList[id]: payload of the last "peer-list" socket id received
    cl,         \* cl[c]: the globals of the page of client c (app.js 55-84)
    chans,      \* chans[h]: the RTCDataChannel with handle h
    tasks,      \* the async functions suspended at an await
    ev          \* the handler that ran last, with its argument

dirVars == <<peers, nextId, inbox, lastList>>
cliVars == <<cl, chans, tasks, ev>>
vars == <<peers, nextId, inbox, lastList, cl, chans, tasks, ev>>

\* ------------------------------------------------------------- the registry
Has(ps, id) == \E i \in DOMAIN ps : ps[i].id = id
IndexOf(ps, id) == CHOOSE i \in DOMAIN ps : ps[i].id = id
Get(ps, id) == ps[IndexOf(ps, id)]
ModeOf(ps, id) == IF Has(ps, id) THEN Get(ps, id).mode ELSE "absent"

\* peers.set(socket.id, {id, name, mode: "none"}) for a key not in the Map
MapSet(ps, id, name) == Append(ps, [id |-> id, name |-> name, mode |-> "none"])
\* A removal that finds the records by the name stored under the key.
MapDelete_ByName(ps, id) ==
    LET Keep(p) == ~Has(ps, id) \/ p.name # Get(ps, id).name
    IN  SelectSeq(ps, Keep)

\* A removal by position: indexOf the key, then splice(index, 1), which takes
\* the last record away when the key is not there.
MapDelete_Splice(ps, id) ==
    IF Has(ps, id)
    THEN LET Keep(p) == p.id # id
         IN  SelectSeq(ps, Keep)
    ELSE IF ps = <<>> THEN ps ELSE SubSeq(ps, 1, Len(ps) - 1)

\* peers.delete(socket.id)
MapDelete(ps, id) ==
    LET Keep(p) == p.id # id
    IN  SelectSeq(ps, Keep)
\* peer.mode = mode on the record stored under id
WithMode(ps, id, mode) ==
    [i \in DOMAIN ps |-> IF ps[i].id = id THEN [ps[i] EXCEPT !.mode = mode] ELSE ps[i]]

\* getPeerListFor that shows every peer that is not a sender.
getPeerListFor_ShowsIdle(ps, socketId) ==
    IF ~Has(ps, socketId) \/ Get(ps, socketId).mode # "sender"
    THEN <<>>
    ELSE LET Shown(p) == p.id # socketId /\ p.mode # "sender"
         IN  SelectSeq(ps, Shown)

\* getPeerListFor without its check of the caller's mode.
getPeerListFor_NoModeCheck(ps, socketId) ==
    LET Shown(p) == p.id # socketId /\ p.mode = "receiver"
    IN  SelectSeq(ps, Shown)

getPeerListFor(ps, socketId) ==
    IF ~Has(ps, socketId) \/ Get(ps, socketId).mode # "sender"
    THEN <<>>
    ELSE LET Shown(p) == p.id # socketId /\ p.mode = "receiver"
         IN  SelectSeq(ps, Shown)

PeerListMsg(list) == [type |-> "peer-list", list |-> list]

\* broadcastPeerLists that skips the peers whose list is empty.
broadcastPeerLists_SkipEmpty(ps, box) ==
    [id \in Ids |->
        IF Has(ps, id) /\ getPeerListFor(ps, id) # <<>>
        THEN Append(box[id], PeerListMsg(getPeerListFor(ps, id)))
        ELSE box[id]]

\* broadcastPeerLists that emits to the peers that have chosen a mode only.
broadcastPeerLists_SkipNone(ps, box) ==
    [id \in Ids |->
        IF Has(ps, id) /\ Get(ps, id).mode # "none"
        THEN Append(box[id], PeerListMsg(getPeerListFor(ps, id)))
        ELSE box[id]]

\* for (const [socketId] of peers) io.to(socketId).emit("peer-list", ...)
broadcastPeerLists(ps, box) ==
    [id \in Ids |->
        IF Has(ps, id) THEN Append(box[id], PeerListMsg(getPeerListFor(ps, id)))
        ELSE box[id]]

\* A handler runs while fewer than MaxInbox messages are in flight to each
\* connection (it emits at most two messages to a connection).
Room == \A id \in Ids : Len(inbox[id]) < MaxInbox

\* ---------------------------------------------------------- server handlers
\* io.on("connection")
Connection ==
    /\ nextId <= MaxConn
    /\ Room
    /\ LET id == nextId
           name == generateDeviceName(nextId)
           ps == MapSet(peers, id, name)
           box == [inbox EXCEPT ![id] =
                     Append(@, [type |-> "self-identity", id |-> id, name |-> name])]
       IN  /\ peers' = ps
           /\ inbox' = broadcastPeerLists(ps, box)
    /\ nextId' = nextId + 1
    /\ UNCHANGED lastList

\* socket.on("set-mode") that lets a peer choose its mode once.
SetMode_OnceOnly(id, mode) ==
    /\ Has(peers, id)
    /\ Room
    /\ IF (mode # "sender" /\ mode # "receiver") \/ Get(peers, id).mode # "none"
       THEN UNCHANGED <<peers, inbox>>
       ELSE LET ps == WithMode(peers, id, mode)
                box == [inbox EXCEPT ![id] =
                          Append(@, [type |-> "mode-confirmed", mode |-> mode])]
            IN  /\ peers' = ps
                /\ inbox' = broadcastPeerLists(ps, box)
    /\ UNCHANGED <<nextId, lastList>>

\* socket.on("set-mode") that stores whatever mode it is given.
SetMode_AnyMode(id, mode) ==
    /\ Has(peers, id)
    /\ Room
    /\ LET ps == WithMode(peers, id, mode)
           box == [inbox EXCEPT ![id] =
                     Append(@, [type |-> "mode-confirmed", mode |-> mode])]
       IN  /\ peers' = ps
           /\ inbox' = broadcastPeerLists(ps, box)
    /\ UNCHANGED <<nextId, lastList>>

\* socket.on("set-mode")
SetMode(id, mode) ==
    /\ Has(peers, id)
    /\ Room
    /\ IF mode # "sender" /\ mode # "receiver"
       THEN UNCHANGED <<peers, inbox>>
       ELSE LET ps == WithMode(peers, id, mode)
                box == [inbox EXCEPT ![id] =
                          Append(@, [type |-> "mode-confirmed", mode |-> mode])]
            IN  /\ peers' = ps
                /\ inbox' = broadcastPeerLists(ps, box)
    /\ UNCHANGED <<nextId, lastList>>

\* socket.on("disconnect"): the connection is gone, what was in flight to it
\* is lost.
Disconnect(id) ==
    /\ Has(peers, id)
    /\ Room
    /\ LET ps == MapDelete(peers, id)
       IN  /\ peers' = ps
           /\ inbox' = broadcastPeerLists(ps, [inbox EXCEPT ![id] = <<>>])
    /\ lastList' = [lastList EXCEPT ![id] = <<>>]
    /\ UNCHANGED nextId

\* ----------------------------------------------------------------- clients
\* The client's socket receives the oldest message in flight.
Deliver(id) ==
    /\ inbox[id] # <<>>
    /\ inbox' = [inbox EXCEPT ![id] = Tail(@)]
    /\ lastList' = IF Head(inbox[id]).type = "peer-list"
                   THEN [lastList EXCEPT ![id] = Head(inbox[id]).list]
                   ELSE lastList
    /\ UNCHANGED <<peers, nextId>>

DirInit ==
    /\ peers = <<>>
    /\ nextId = 1
    /\ inbox = [id \in Ids |-> <<>>]
    /\ lastList = [id \in Ids |-> <<>>]

NoClients ==
    /\ cl = <<>>
    /\ chans = <<>>
    /\ tasks = {}
    /\ ev = [op |-> "init"]

Init == DirInit /\ NoClients

Next ==
    \/ Connection /\ UNCHANGED cliVars
    \/ \E id \in Ids, mode \in ModeInputs : SetMode(id, mode) /\ UNCHANGED cliVars
    \/ \E id \in Ids : Disconnect(id) /\ UNCHANGED cliVars
    \/ \E id \in Ids : Deliver(id) /\ UNCHANGED cliVars

Spec == Init /\ [][Next]_vars

\* ------------------------------------------- SpecDir: the handlers' steps
\* The directory of Spec with a record of the handler that ran last, of the
\* socket it ran for and its argument (for "set-mode" the mode stored before
\* as well), and of the sockets that are connected:
\* a socket is live from its "connection" to its "disconnect" event, and only
\* a live socket's handlers run. The server handles an event while fewer than
\* MaxPending sockets have messages in flight to them.
MaxPending == 1
Busy == Cardinality({id \in Ids : inbox[id] # <<>>}) >= MaxPending

InitDir ==
    /\ DirInit
    /\ cl = <<>>
    /\ chans = <<>>
    /\ tasks = {}
    /\ ev = [op |-> "init", live |-> {}]

NextDir ==
    \/ /\ ~Busy
       /\ Connection
       /\ ev' = [op |-> "connection", id |-> nextId, live |-> ev.live \cup {nextId}]
       /\ UNCHANGED <<cl, chans, tasks>>
    \/ \E id \in ev.live, mode \in ModeInputs :
          /\ ~Busy
          /\ SetMode(id, mode)
          /\ ev' = [op |-> "set-mode", id |-> id, mode |-> mode,
                    was |-> ModeOf(peers, id), live |-> ev.live]
          /\ UNCHANGED <<cl, chans, tasks>>
    \/ \E id \in ev.live :
          /\ ~Busy
          /\ Disconnect(id)
          /\ ev' = [op |-> "disconnect", id |-> id, live |-> ev.live \ {id}]
          /\ UNCHANGED <<cl, chans, tasks>>
    \/ \E id \in Ids :
          /\ Deliver(id)
          /\ ev' = [op |-> "deliver", id |-> id, live |-> ev.live]
          /\ UNCHANGED <<cl, chans, tasks>>

SpecDir == InitDir /\ [][NextDir]_vars

\* ------------------------------------- SpecRemove: removal as an operation
\* The body of the "disconnect" handler (peers.delete, broadcastPeerLists)
\* applied to any directory the server can hold and to any id, in the
\* directory or not. The directories are those of the sockets 1..MaxConn, each
\* gone or registered under one of the three modes, with every peer's view
\* delivered. The step records whether the id was in the directory.
Directories ==
    {ps \in UNION {[1..n -> [id : Ids, name : {Names[k] : k \in DOMAIN Names}, mode : {"none", "sender", "receiver"}]]
                     : n \in 0..MaxConn} :
        /\ \A i \in DOMAIN ps : ps[i].name = generateDeviceName(ps[i].id)
        /\ \A i, j \in DOMAIN ps : i < j => ps[i].id < ps[j].id}

Removal(id) ==
    /\ Room
    /\ LET ps == MapDelete(peers, id)
       IN  /\ peers' = ps
           /\ inbox' = broadcastPeerLists(ps, [inbox EXCEPT ![id] = <<>>])
    /\ lastList' = [lastList EXCEPT ![id] = <<>>]
    /\ UNCHANGED nextId

InitRemove ==
    /\ peers \in Directories
    /\ nextId = MaxConn + 1
    /\ inbox = [id \in Ids |-> <<>>]
    /\ lastList = [id \in Ids |-> getPeerListFor(peers, id)]
    /\ cl = <<>>
    /\ chans = <<>>
    /\ tasks = {}
    /\ ev = [op |-> "init"]

NextRemove ==
    \/ \E id \in Ids :
          /\ Removal(id)
          /\ ev' = [op |-> "remove", id |-> id, had |-> Has(peers, id)]
          /\ UNCHANGED <<cl, chans, tasks>>
    \/ \E id \in Ids :
          /\ Deliver(id)
          /\ ev' = [op |-> "deliver", id |-> id]
          /\ UNCHANGED <<cl, chans, tasks>>

SpecRemove == InitRemove /\ [][NextRemove]_vars

\* ------------------------------------------------------------ the client
\* The page's globals (app.js 24, 55-84), the items of its el.peerList and
\* el.btnSend.disabled; heard is every candidate its "ice-candidate" handler
\* was called with, and whether the connection the candidate is for had its
\* remote description at that time.
\* null is 0 for an id or a handle and <<>> for an object (<<obj>> when set).
NoRx == [active |-> FALSE, meta |-> <<>>, chunks |-> <<>>, received |-> 0]

NewClient ==
    [ICE_CONFIG |-> "null", myId |-> 0, myName |-> "", myMode |-> "null",
     peerList |-> <<>>, selectedPeerId |-> 0, selectedPeerName |-> "",
     peerConnection |-> 0, dataChannel |-> 0, pendingCandidates |-> <<>>,
     selectedFile |-> <<>>, isBusy |-> FALSE, bytesSent |-> 0,
     btnSendDisabled |-> TRUE,
     rx |-> NoRx, receivedFiles |-> <<>>, heard |-> <<>>]

\* A frame on the data channel is a string or an ArrayBuffer. A string is a
\* JSON text (parsed |-> TRUE, json the object it denotes) or is not.
TextFrame(obj) == [bin |-> FALSE, parsed |-> TRUE, json |-> obj]
NotJson == [bin |-> FALSE, parsed |-> FALSE, json |-> [type |-> ""]]
MetadataFrame(name, size, type) ==
    TextFrame([type |-> "metadata", fileName |-> name, fileSize |-> size, fileType |-> type])
DoneFrame == TextFrame([type |-> "done"])
\* The bytes off..off+len-1 of the file being sent.
BinaryFrame(off, len) == [bin |-> TRUE, off |-> off, len |-> len]

\* JSON.parse: the object, or a SyntaxError
JSONparse(data) == IF data.parsed THEN <<data.json>> ELSE <<>>

resetReceive(c) == [c EXCEPT !.rx = NoRx]

\* new Blob(rx.chunks): the chunks' bytes, one after the other in the order
\* of the array. The bytes are named by the ranges of the sent file they come
\* from; an empty chunk adds no byte and two ranges that follow one another
\* in the file are one range.
Join(a, b) ==
    IF a = <<>> THEN b
    ELSE IF b = <<>> THEN a
    ELSE LET x == a[Len(a)]
             y == b[1]
         IN  IF y.off = x.off + x.len
             THEN SubSeq(a, 1, Len(a) - 1) \o <<[off |-> x.off, len |-> x.len + y.len]>>
                      \o Tail(b)
             ELSE a \o b
RECURSIVE Concat(_)
Concat(chunks) ==
    IF chunks = <<>> THEN <<>>
    ELSE IF Len(chunks) = 1
    THEN IF chunks[1].len = 0 THEN <<>>
         ELSE <<[off |-> chunks[1].off, len |-> chunks[1].len]>>
    ELSE LET m == Len(chunks) \div 2
         IN  Join(Concat(SubSeq(chunks, 1, m)), Concat(SubSeq(chunks, m + 1, Len(chunks))))
Blob(chunks) == Concat(chunks)
\* blob.size
RECURSIVE BlobSize(_)
BlobSize(b) == IF b = <<>> THEN 0 ELSE Head(b).len + BlobSize(Tail(b))

addToGallery(c, file) == [c EXCEPT !.receivedFiles = <<file>> \o @]

\* assembleAndDownload that releases the busy flag without resetting rx.
assembleAndDownload_NoReset(c) ==
    IF c.rx.meta = <<>> \/ c.rx.chunks = <<>> THEN c
    ELSE LET meta == c.rx.meta[1]
             file == [name |-> meta.fileName, size |-> meta.fileSize,
                      type |-> meta.fileType, url |-> Blob(c.rx.chunks)]
         IN  [addToGallery(c, file) EXCEPT !.isBusy = FALSE]

assembleAndDownload(c) ==
    IF c.rx.meta = <<>> \/ c.rx.chunks = <<>> THEN c
    ELSE LET meta == c.rx.meta[1]
             file == [name |-> meta.fileName, size |-> meta.fileSize,
                      type |-> meta.fileType, url |-> Blob(c.rx.chunks)]
         IN  [resetReceive(addToGallery(c, file)) EXCEPT !.isBusy = FALSE]

\* handleReceivedMessage that keeps a chunk that comes before any metadata.
handleReceivedMessage_KeepsEarly(c, data) ==
    IF ~data.bin
    THEN LET msg == JSONparse(data)
         IN  IF msg = <<>> THEN c
             ELSE IF msg[1].type = "metadata"
             THEN [c EXCEPT !.rx = [active |-> TRUE,
                                    meta |-> <<[fileName |-> msg[1].fileName,
                                                fileSize |-> msg[1].fileSize,
                                                fileType |-> msg[1].fileType]>>,
                                    chunks |-> <<>>, received |-> 0]]
             ELSE IF msg[1].type = "done" THEN assembleAndDownload(c)
             ELSE c
    ELSE IF ~c.rx.active \/ c.rx.meta = <<>>
    THEN [c EXCEPT !.rx.chunks = Append(@, data), !.rx.received = @ + data.len]
    ELSE LET d == [c EXCEPT !.rx.chunks = Append(@, data), !.rx.received = @ + data.len]
         IN  IF d.rx.received >= d.rx.meta[1].fileSize THEN assembleAndDownload(d) ELSE d

\* handleReceivedMessage without the byte-count check after a chunk.
handleReceivedMessage_NoCountCheck(c, data) ==
    IF ~data.bin
    THEN LET msg == JSONparse(data)
         IN  IF msg = <<>> THEN c
             ELSE IF msg[1].type = "metadata"
             THEN [c EXCEPT !.rx = [active |-> TRUE,
                                    meta |-> <<[fileName |-> msg[1].fileName,
                                                fileSize |-> msg[1].fileSize,
                                                fileType |-> msg[1].fileType]>>,
                                    chunks |-> <<>>, received |-> 0]]
             ELSE IF msg[1].type = "done" THEN assembleAndDownload(c)
             ELSE c
    ELSE IF ~c.rx.active \/ c.rx.meta = <<>> THEN c
    ELSE [c EXCEPT !.rx.chunks = Append(@, data), !.rx.received = @ + data.len]

\* handleReceivedMessage that puts a chunk in front of the chunks it holds.
handleReceivedMessage_Unshift(c, data) ==
    IF ~data.bin
    THEN LET msg == JSONparse(data)
         IN  IF msg = <<>> THEN c
             ELSE IF msg[1].type = "metadata"
             THEN [c EXCEPT !.rx = [active |-> TRUE,
                                    meta |-> <<[fileName |-> msg[1].fileName,
                                                fileSize |-> msg[1].fileSize,
                                                fileType |-> msg[1].fileType]>>,
                                    chunks |-> <<>>, received |-> 0]]
             ELSE IF msg[1].type = "done" THEN assembleAndDownload(c)
             ELSE c
    ELSE IF ~c.rx.active \/ c.rx.meta = <<>> THEN c
    ELSE LET d == [c EXCEPT !.rx.chunks = <<data>> \o @, !.rx.received = @ + data.len]
         IN  IF d.rx.received >= d.rx.meta[1].fileSize THEN assembleAndDownload(d) ELSE d

handleReceivedMessage(c, data) ==
    IF ~data.bin
    THEN LET msg == JSONparse(data)
         IN  IF msg = <<>> THEN c
             ELSE IF msg[1].type = "metadata"
             THEN [c EXCEPT !.rx = [active |-> TRUE,
                                    meta |-> <<[fileName |-> msg[1].fileName,
                                                fileSize |-> msg[1].fileSize,
                                                fileType |-> msg[1].fileType]>>,
                                    chunks |-> <<>>, received |-> 0]]
             ELSE IF msg[1].type = "done" THEN assembleAndDownload(c)
             ELSE c
    ELSE IF ~c.rx.active \/ c.rx.meta = <<>> THEN c
    ELSE LET d == [c EXCEPT !.rx.chunks = Append(@, data), !.rx.received = @ + data.len]
         IN  IF d.rx.received >= d.rx.meta[1].fileSize THEN assembleAndDownload(d) ELSE d

\* ------------------------------------------------------- the data channel
\* One RTCDataChannel between the pages s (which created it) and r (which
\* gets it in ondatachannel): the readyState of its two ends, the frames
\* send() has queued at the sending end (bufferedAmount counts them), the
\* frames on their way to the receiving end, whether a bufferedamountlow
\* event is due, and every frame send() has accepted so far.
\* file is the file the sending page's onopen handler holds (<<>> when the
\* sending end is not a page of the model); sPc and rPc are the two
\* RTCPeerConnections the channel runs over, sRemote and rRemote whether
\* each has its remote description, sLocal and rLocal whether each has its
\* local description, sCands and rCands how many candidates each has
\* gathered, sApplied and rApplied the candidates addIceCandidate has given
\* each.
NewChannel(s, r, file) ==
    [s |-> s, r |-> r, file |-> file, sPc |-> "open", rPc |-> "none",
     sRemote |-> FALSE, rRemote |-> FALSE, sLocal |-> FALSE, rLocal |-> FALSE,
     sCands |-> 0, rCands |-> 0, sApplied |-> <<>>, rApplied |-> <<>>,
     sState |-> "connecting", rState |-> "none",
     buf |-> <<>>, wire |-> <<>>, low |-> FALSE, log |-> <<>>]

\* dataChannel.close() by page i: the end of the channel that page i holds
\* leaves "open". The sending end's onclose only logs, so that end is closed
\* at once; the receiving end's onclose fires later.
CloseChannel(chs, h, i) ==
    IF h = 0 THEN chs
    ELSE IF chs[h].s = i
    THEN [chs EXCEPT ![h].sState = IF @ \in {"connecting", "open"} THEN "closed" ELSE @]
    ELSE [chs EXCEPT ![h].rState = IF @ = "open" THEN "closing" ELSE @]

\* peerConnection.close() by page i: the connection is closed, and with it
\* its channel; what send() has queued is not transmitted any more.
ClosePc(chs, h, i) ==
    IF h = 0 THEN chs
    ELSE IF chs[h].s = i
    THEN [chs EXCEPT ![h].sPc = "closed", ![h].buf = <<>>, ![h].low = FALSE,
                     ![h].sState = IF @ \in {"connecting", "open"} THEN "closed" ELSE @]
    ELSE [chs EXCEPT ![h].rPc = "closed",
                     ![h].rState = IF @ = "open" THEN "closing" ELSE @]

\* closePeerConnection() on page i: the page and the channels afterwards.
closePeerConnection(i, c, chs) ==
    [c |-> [c EXCEPT !.dataChannel = 0, !.peerConnection = 0, !.pendingCandidates = <<>>],
     chs |-> ClosePc(CloseChannel(chs, c.dataChannel, i), c.peerConnection, i)]

\* The two connections have each other's description: the channel can open
\* at both ends. (The exchange of ICE candidates is not part of this.)
Established(ch) == ch.sPc = "open" /\ ch.rPc = "open" /\ ch.sRemote /\ ch.rRemote

\* ---------------------------------------------------- the sending side
CHUNK_SIZE == 16384
HIGH_WATERMARK == 1048576
LOW_WATERMARK == 262144

Min(a, b) == IF a < b THEN a ELSE b

RECURSIVE Digits(_)
Digits(n) == IF n < 10 THEN 1 ELSE 1 + Digits(n \div 10)

\* The length of the text JSON.stringify gives for a frame's object, which is
\* what a string adds to bufferedAmount.
JSONstringifyLength(obj) ==
    IF obj.type = "metadata"
    THEN Len("{\"type\":\"metadata\",\"fileName\":\"\",\"fileSize\":,\"fileType\":\"\"}")
            + Len(obj.fileName) + Digits(obj.fileSize) + Len(obj.fileType)
    ELSE Len("{\"type\":\"\"}") + Len(obj.type)

byteLength(data) == IF data.bin THEN data.len ELSE JSONstringifyLength(data.json)

RECURSIVE SumBytes(_)
SumBytes(q) ==
    IF q = <<>> THEN 0
    ELSE IF Len(q) = 1 THEN byteLength(q[1])
    ELSE LET m == Len(q) \div 2
         IN  SumBytes(SubSeq(q, 1, m)) + SumBytes(SubSeq(q, m + 1, Len(q)))

\* channel.bufferedAmount
bufferedAmount(ch) == SumBytes(ch.buf)

\* channel.send(data) throws InvalidStateError unless the channel is open.
CanSend(ch) == ch.sState = "open"
Send(ch, data) == [ch EXCEPT !.buf = Append(@, data), !.log = Append(@, data)]

resetTransferUI(c) ==
    [c EXCEPT !.isBusy = FALSE,
              !.btnSendDisabled = ~(c.selectedPeerId # 0 /\ c.selectedFile # <<>>)]

\* A run of startSendingFile is the record [fn, c, h, file, offset, at]: the
\* page, the channel and the file it was called with, its local offset and the
\* await it is suspended at. A step of it gives the page, the channel and the
\* run (<<>> once it has returned or thrown).
StepResult(c, ch, t) == [c |-> c, ch |-> ch, t |-> t]

\* From the readyState check (app.js 556) to await readChunk(offset).
LoopAfterDrain(c, ch, t) ==
    IF ch.sState # "open"
    THEN StepResult(resetTransferUI(c), ch, <<>>)
    ELSE StepResult(c, ch, <<[t EXCEPT !.at = "readChunk"]>>)

\* From the head of the while loop (app.js 549) to the next await, or through
\* the "done" frame to the return. A send on a channel that is not open
\* throws out of startSendingFile, past resetTransferUI.
LoopHead(c, ch, t) ==
    IF t.offset < t.file.size
    THEN IF bufferedAmount(ch) > HIGH_WATERMARK
         THEN StepResult(c, ch, <<[t EXCEPT !.at = "waitForDrain"]>>)
         ELSE LoopAfterDrain(c, ch, t)
    ELSE IF CanSend(ch)
         THEN StepResult(resetTransferUI(c), Send(ch, DoneFrame), <<>>)
         ELSE StepResult(c, ch, <<>>)

\* file.slice(start, start + CHUNK_SIZE) read as an ArrayBuffer
readChunk(file, start) == BinaryFrame(start, Min(CHUNK_SIZE, file.size - start))

\* startSendingFile(channel, file) up to its first await
startSendingFile(c, ch, h, file) ==
    LET t == [fn |-> "startSendingFile", c |-> ch.s, h |-> h, file |-> file,
              offset |-> 0, at |-> "start"]
        c0 == [c EXCEPT !.bytesSent = 0]
        meta == MetadataFrame(file.name, file.size,
                              IF file.type = "" THEN "application/octet-stream"
                              ELSE file.type)
    IN  IF CanSend(ch) THEN LoopHead(c0, Send(ch, meta), t)
        ELSE StepResult(c0, ch, <<>>)

\* The rest of an iteration once readChunk has resolved with chunk.
AfterReadChunk(c, ch, t, chunk) ==
    IF CanSend(ch)
    THEN LoopHead([c EXCEPT !.bytesSent = @ + chunk.len], Send(ch, chunk),
                  [t EXCEPT !.offset = @ + chunk.len])
    ELSE StepResult(c, ch, <<>>)

Resumed(t, r) == (tasks \ {t}) \cup {r.t[i] : i \in DOMAIN r.t}

\* ------------------------------------------------ events of a data channel
\* channel.onopen at the sending page (setupSenderChannel)
SenderChannelOpen(h) ==
    /\ Established(chans[h])
    /\ chans[h].sState = "connecting"
    /\ chans[h].file # <<>>
    /\ LET ch == [chans[h] EXCEPT !.sState = "open"]
           r == startSendingFile(cl[ch.s], ch, h, ch.file[1])
       IN  /\ cl' = [cl EXCEPT ![ch.s] = r.c]
           /\ chans' = [chans EXCEPT ![h] = r.ch]
           /\ tasks' = tasks \cup {r.t[i] : i \in DOMAIN r.t}
    /\ ev' = [op |-> "open", h |-> h]

\* channel.onerror at the sending page; the channel is closed.
SenderChannelError(h) ==
    /\ chans[h].sState = "open"
    /\ cl' = [cl EXCEPT ![chans[h].s] = resetTransferUI(@)]
    /\ chans' = [chans EXCEPT ![h].sState = "closed", ![h].buf = <<>>]
    /\ ev' = [op |-> "senderror", h |-> h]
    /\ UNCHANGED tasks

\* peerConnection.ondatachannel at the receiving page (app.js 304-308)
ReceiverDataChannel(h) ==
    /\ Established(chans[h])
    /\ chans[h].rState = "none"
    /\ chans[h].sState \in {"connecting", "open"}
    /\ cl' = [cl EXCEPT ![chans[h].r].dataChannel = h]
    /\ chans' = [chans EXCEPT ![h].rState = "open"]
    /\ ev' = [op |-> "datachannel", h |-> h]
    /\ UNCHANGED tasks

\* FileReader.onload: readChunk resolves and the iteration goes on.
ReadChunkResolved(t) ==
    /\ t.at = "readChunk"
    /\ LET r == AfterReadChunk(cl[t.c], chans[t.h], t, readChunk(t.file, t.offset))
       IN  /\ cl' = [cl EXCEPT ![t.c] = r.c]
           /\ chans' = [chans EXCEPT ![t.h] = r.ch]
           /\ tasks' = Resumed(t, r)
    /\ ev' = [op |-> "readChunk", h |-> t.h]

\* A rejection of readChunk after which the "done" frame is sent all the same.
ReadChunkRejected_SendsDone(t) ==
    /\ t.at = "readChunk"
    /\ cl' = [cl EXCEPT ![t.c] = resetTransferUI(@)]
    /\ chans' = [chans EXCEPT ![t.h] = IF CanSend(@) THEN Send(@, DoneFrame) ELSE @]
    /\ tasks' = tasks \ {t}
    /\ ev' = [op |-> "readError", h |-> t.h]

\* FileReader.onerror: readChunk rejects (app.js 564).
ReadChunkRejected(t) ==
    /\ t.at = "readChunk"
    /\ cl' = [cl EXCEPT ![t.c] = resetTransferUI(@)]
    /\ tasks' = tasks \ {t}
    /\ ev' = [op |-> "readError", h |-> t.h]
    /\ UNCHANGED chans

\* The browser hands the oldest queued frame to the transport. A
\* bufferedamountlow event is due when bufferedAmount falls from above
\* bufferedAmountLowThreshold (LOW_WATERMARK, app.js 467) to it or below.
Transmit(h) ==
    /\ chans[h].sState = "open"
    /\ chans[h].buf # <<>>
    /\ Len(chans[h].wire) < MaxWire
    /\ LET ch == chans[h]
           after == [ch EXCEPT !.buf = Tail(@), !.wire = Append(@, Head(ch.buf))]
           crossed == /\ bufferedAmount(ch) > LOW_WATERMARK
                      /\ bufferedAmount(after) <= LOW_WATERMARK
       IN  chans' = [chans EXCEPT ![h] = [after EXCEPT !.low = @ \/ crossed]]
    /\ ev' = [op |-> "transmit", h |-> h]
    /\ UNCHANGED <<cl, tasks>>

\* The bufferedamountlow event: channel.onbufferedamountlow is the resolver
\* waitForDrain has set, or null.
BufferedAmountLow(h) ==
    /\ chans[h].low
    /\ IF \E t \in tasks : t.h = h /\ t.at = "waitForDrain"
       THEN LET t == CHOOSE t \in tasks : t.h = h /\ t.at = "waitForDrain"
                r == LoopAfterDrain(cl[t.c], [chans[h] EXCEPT !.low = FALSE], t)
            IN  /\ cl' = [cl EXCEPT ![t.c] = r.c]
                /\ chans' = [chans EXCEPT ![h] = r.ch]
                /\ tasks' = Resumed(t, r)
       ELSE /\ chans' = [chans EXCEPT ![h].low = FALSE]
            /\ UNCHANGED <<cl, tasks>>
    /\ ev' = [op |-> "bufferedamountlow", h |-> h]

\* channel.onmessage at the receiving page with the oldest frame on the way.
Receive(h) ==
    /\ chans[h].rState = "open"
    /\ chans[h].wire # <<>>
    /\ LET data == Head(chans[h].wire)
       IN  /\ cl' = [cl EXCEPT ![chans[h].r] = handleReceivedMessage(@, data)]
           /\ ev' = [op |-> "message", data |-> data]
    /\ Len(cl'[chans[h].r].receivedFiles) <= MaxFiles
    /\ chans' = [chans EXCEPT ![h].wire = Tail(@)]
    /\ UNCHANGED tasks

\* The transport under the channel is lost: what is queued or on the way is
\* gone, the sending end is closed (its onclose only logs) and the receiving
\* end is closing.
ChannelLost(h) ==
    /\ chans[h].sState \in {"connecting", "open"}
    /\ chans' = [chans EXCEPT ![h].sState = "closed", ![h].buf = <<>>, ![h].wire = <<>>,
                              ![h].low = FALSE,
                              ![h].rState = IF @ = "open" THEN "closing" ELSE @]
    /\ ev' = [op |-> "lost", h |-> h]
    /\ UNCHANGED <<cl, tasks>>

\* --------------------------------------------- SpecRx: the receiving side
\* The receiver is client 1. The remote end of its channel sends any frame.
Rx == 1
ForeignFrames ==
    {MetadataFrame("a.txt", n, "text/plain") : n \in FileSizes}
        \cup {DoneFrame, NotJson, TextFrame([type |-> "ping"])}
        \cup {BinaryFrame(0, n) : n \in ChunkLens}

\* socket.on("offer") accepted (the page is not busy) and the ondatachannel
\* that follows it: the page is busy, closePeerConnection has closed the
\* channel the page held, and dataChannel is the new channel.
RxDataChannel ==
    /\ ~cl[Rx].isBusy
    /\ Len(chans) < MaxChannels
    /\ LET r == closePeerConnection(Rx, cl[Rx], chans)
           h == Len(chans) + 1
       IN  /\ chans' = Append(r.chs, [NewChannel(0, Rx, <<>>) EXCEPT
                                         !.rPc = "open", !.sRemote = TRUE, !.rRemote = TRUE,
                                         !.sLocal = TRUE, !.rLocal = TRUE,
                                         !.sState = "open", !.rState = "open"])
           /\ cl' = [cl EXCEPT ![Rx] = [r.c EXCEPT !.ICE_CONFIG = "loaded", !.isBusy = TRUE,
                                                  !.peerConnection = h, !.dataChannel = h]]
    /\ ev' = [op |-> "datachannel"]
    /\ UNCHANGED tasks

\* channel.onmessage
RxMessage(h, data) ==
    /\ chans[h].rState = "open"
    /\ Len(handleReceivedMessage(cl[Rx], data).receivedFiles) <= MaxFiles
    /\ Len(cl[Rx].rx.chunks) < MaxHeld
    /\ cl' = [cl EXCEPT ![Rx] = handleReceivedMessage(@, data)]
    /\ ev' = [op |-> "message", data |-> data]
    /\ UNCHANGED <<chans, tasks>>

\* channel.onerror; the channel then closes.
RxChannelError(h) ==
    /\ chans[h].rState = "open"
    /\ cl' = [cl EXCEPT ![chans[h].r] = [resetReceive(@) EXCEPT !.isBusy = FALSE]]
    /\ chans' = [chans EXCEPT ![h].rState = "closing"]
    /\ ev' = [op |-> "error"]
    /\ UNCHANGED tasks

\* The remote end, or the connection under the channel, goes away.
RxRemoteClose(h) ==
    /\ chans[h].rState = "open"
    /\ chans' = [chans EXCEPT ![h].rState = "closing"]
    /\ ev' = [op |-> "closing"]
    /\ UNCHANGED <<cl, tasks>>

\* channel.onclose
RxChannelClose(h) ==
    /\ chans[h].rState = "closing"
    /\ chans' = [chans EXCEPT ![h].rState = "closed"]
    /\ cl' = [cl EXCEPT ![chans[h].r].isBusy = FALSE]
    /\ ev' = [op |-> "close"]
    /\ UNCHANGED tasks

InitRx ==
    /\ DirInit
    /\ cl = <<[NewClient EXCEPT !.myId = 1, !.myName = Names[1], !.myMode = "receiver"]>>
    /\ chans = <<>>
    /\ tasks = {}
    /\ ev = [op |-> "init"]

NextRx ==
    \/ RxDataChannel /\ UNCHANGED dirVars
    \/ \E h \in DOMAIN chans, data \in ForeignFrames : RxMessage(h, data) /\ UNCHANGED dirVars
    \/ \E h \in DOMAIN chans : RxChannelError(h) /\ UNCHANGED dirVars
    \/ \E h \in DOMAIN chans : RxRemoteClose(h) /\ UNCHANGED dirVars
    \/ \E h \in DOMAIN chans : RxChannelClose(h) /\ UNCHANGED dirVars

SpecRx == InitRx /\ [][NextRx]_vars

\* ------------------------------------------- SpecData: one direct transfer
\* Page 1 is in receiver mode and has answered the offer of page 2, which is
\* in sender mode and has created channel 1 for the file it has selected.
SendSizes ==
    {0, 1, CHUNK_SIZE, CHUNK_SIZE + 1, HIGH_WATERMARK + 1, HIGH_WATERMARK + CHUNK_SIZE + 1}
Files ==
    {[name |-> "a.txt", size |-> n, type |-> "text/plain"] : n \in SendSizes}
        \cup {[name |-> "b", size |-> 1, type |-> ""]}

Registered(modes) ==
    /\ peers = [i \in DOMAIN modes |->
                   [id |-> i, name |-> generateDeviceName(i), mode |-> modes[i]]]
    /\ nextId = Len(modes) + 1
    /\ inbox = [id \in Ids |-> <<>>]
    /\ lastList = [id \in Ids |-> IF id \in DOMAIN modes THEN getPeerListFor(peers, id)
                                  ELSE <<>>]

Page(id, mode) ==
    [NewClient EXCEPT !.myId = id, !.myName = generateDeviceName(id), !.myMode = mode]

InitData ==
    /\ Registered(<<"receiver", "sender">>)
    /\ \E file \in Files :
          /\ cl = <<[Page(1, "receiver") EXCEPT !.ICE_CONFIG = "loaded", !.isBusy = TRUE,
                                               !.peerConnection = 1],
                    [Page(2, "sender") EXCEPT !.ICE_CONFIG = "loaded", !.isBusy = TRUE,
                                             !.peerList = getPeerListFor(peers, 2),
                                             !.selectedPeerId = 1,
                                             !.selectedPeerName = generateDeviceName(1),
                                             !.selectedFile = <<file>>,
                                             !.peerConnection = 1, !.dataChannel = 1]>>
          /\ chans = <<[NewChannel(2, 1, <<file>>) EXCEPT !.rPc = "open", !.sRemote = TRUE,
                                                          !.rRemote = TRUE,
                                                          !.sLocal = TRUE,
                                                          !.rLocal = TRUE]>>
    /\ tasks = {}
    /\ ev = [op |-> "init"]

NextData ==
    \/ \E h \in DOMAIN chans : SenderChannelOpen(h) /\ UNCHANGED dirVars
    \/ \E h \in DOMAIN chans : ReceiverDataChannel(h) /\ UNCHANGED dirVars
    \/ \E t \in tasks : ReadChunkResolved(t) /\ UNCHANGED dirVars
    \/ \E t \in tasks : ReadChunkRejected(t) /\ UNCHANGED dirVars
    \/ \E h \in DOMAIN chans : Transmit(h) /\ UNCHANGED dirVars
    \/ \E h \in DOMAIN chans : BufferedAmountLow(h) /\ UNCHANGED dirVars
    \/ \E h \in DOMAIN chans : Receive(h) /\ UNCHANGED dirVars
    \/ \E h \in DOMAIN chans : SenderChannelError(h) /\ UNCHANGED dirVars
    \/ \E h \in DOMAIN chans : ChannelLost(h) /\ UNCHANGED dirVars
    \/ \E h \in DOMAIN chans : RxChannelClose(h) /\ UNCHANGED dirVars

SpecData == InitData /\ [][NextData]_vars

\* ------------------------------------ SpecLive: a transfer left undisturbed
\* The transfer of SpecData when nothing fails: both pages stay connected,
\* the channel opens at both ends and stays open, every read succeeds. The
\* browser runs a handler whose event is due.
NextLive ==
    \/ \E h \in DOMAIN chans : SenderChannelOpen(h) /\ UNCHANGED dirVars
    \/ \E h \in DOMAIN chans : ReceiverDataChannel(h) /\ UNCHANGED dirVars
    \/ \E t \in tasks : ReadChunkResolved(t) /\ UNCHANGED dirVars
    \/ \E h \in DOMAIN chans : Transmit(h) /\ UNCHANGED dirVars
    \/ \E h \in DOMAIN chans : BufferedAmountLow(h) /\ UNCHANGED dirVars
    \/ \E h \in DOMAIN chans : Receive(h) /\ UNCHANGED dirVars

SpecLive == InitData /\ [][NextLive]_vars /\ WF_vars(NextLive)

\* ------------------------------------------- SpecClient: pages and server
\* Page i holds socket i. What a page emits reaches the server's handler in
\* the step that emits it; what the server emits waits in the inbox.
Connected(i) == Has(peers, i)

\* socket.to(targetId).emit(...): the message goes to the socket targetId
\* unless that is the emitting socket itself.
SocketTo(box, from, targetId, msg) ==
    IF targetId = from THEN box ELSE [box EXCEPT ![targetId] = Append(@, msg)]

\* socket.on("offer") that takes fromId from what the client sent.
RelayOffer_TrustPayload(ps, box, from, targetId, offer) ==
    IF ~Has(ps, targetId) THEN box
    ELSE SocketTo(box, from, targetId,
                  [type |-> "offer", fromId |-> offer.fromId,
                   fromName |-> IF Has(ps, from) THEN Get(ps, from).name ELSE "Unknown",
                   offer |-> offer])

\* socket.on("offer") of the server (part_000 170-178)
RelayOffer(ps, box, from, targetId, offer) ==
    IF ~Has(ps, targetId) THEN box
    ELSE SocketTo(box, from, targetId,
                  [type |-> "offer", fromId |-> from,
                   fromName |-> IF Has(ps, from) THEN Get(ps, from).name ELSE "Unknown",
                   offer |-> offer])

\* socket.on("answer") that rebroadcasts the peer lists.
RelayAnswer_Broadcasts(ps, box, from, targetId, answer) ==
    IF ~Has(ps, targetId) THEN box
    ELSE broadcastPeerLists(ps, SocketTo(box, from, targetId,
                                         [type |-> "answer", fromId |-> from,
                                          answer |-> answer]))

\* socket.on("answer") of the server (part_000 180-183)
RelayAnswer(ps, box, from, targetId, answer) ==
    IF ~Has(ps, targetId) THEN box
    ELSE SocketTo(box, from, targetId,
                  [type |-> "answer", fromId |-> from, answer |-> answer])

\* socket.on("ice-candidate") that tells the source when the target is gone.
RelayIceCandidate_ReportsGone(ps, box, from, targetId, candidate) ==
    IF ~Has(ps, targetId)
    THEN [box EXCEPT ![from] = Append(@, [type |-> "error", targetId |-> targetId])]
    ELSE SocketTo(box, from, targetId,
                  [type |-> "ice-candidate", fromId |-> from, candidate |-> candidate])

\* socket.on("ice-candidate") of the server (part_000 185-188)
RelayIceCandidate(ps, box, from, targetId, candidate) ==
    IF ~Has(ps, targetId) THEN box
    ELSE SocketTo(box, from, targetId,
                  [type |-> "ice-candidate", fromId |-> from, candidate |-> candidate])

\* A suspended handler of page c is the record [fn, c, h, at, ...]: h is the
\* connection it has created or been offered, at the await it waits at.
PageResult(c, chs, ts) == [c |-> c, chs |-> chs, ts |-> ts]

\* initiateConnection from new RTCPeerConnection (app.js 462) to
\* await createOffer() (470): connection and channel get the next handle.
CreateOffer(i, c, chs, t) ==
    LET h == Len(chs) + 1
    IN  PageResult([c EXCEPT !.ICE_CONFIG = "loaded", !.peerConnection = h,
                             !.dataChannel = h],
                   Append(chs, NewChannel(i, t.targetId, <<t.file>>)),
                   {[t EXCEPT !.h = h, !.at = "createOffer"]})

\* The click handler of btnSend without its check of isBusy.
btnSendClick_NoBusyCheck(i, c, chs) ==
    IF c.selectedPeerId = 0 \/ c.selectedFile = <<>>
    THEN PageResult(c, chs, {})
    ELSE LET r == closePeerConnection(i, [c EXCEPT !.isBusy = TRUE,
                                                  !.btnSendDisabled = TRUE], chs)
             t == [fn |-> "initiateConnection", c |-> i, h |-> 0,
                   at |-> "getIceConfig", targetId |-> c.selectedPeerId,
                   file |-> c.selectedFile[1]]
         IN  IF r.c.ICE_CONFIG = "null" THEN PageResult(r.c, r.chs, {t})
             ELSE CreateOffer(i, r.c, r.chs, t)

\* The click handler of btnSend (app.js 443-456) up to its first await
btnSendClick(i, c, chs) ==
    IF c.selectedPeerId = 0 \/ c.selectedFile = <<>> \/ c.isBusy
    THEN PageResult(c, chs, {})
    ELSE LET r == closePeerConnection(i, [c EXCEPT !.isBusy = TRUE,
                                                  !.btnSendDisabled = TRUE], chs)
             t == [fn |-> "initiateConnection", c |-> i, h |-> 0,
                   at |-> "getIceConfig", targetId |-> c.selectedPeerId,
                   file |-> c.selectedFile[1]]
         IN  IF r.c.ICE_CONFIG = "null" THEN PageResult(r.c, r.chs, {t})
             ELSE CreateOffer(i, r.c, r.chs, t)

\* The offer handler from new RTCPeerConnection (app.js 300) to
\* await setRemoteDescription (311)
AcceptOffer(i, c, chs, t) ==
    PageResult([c EXCEPT !.ICE_CONFIG = "loaded", !.peerConnection = t.h],
               [chs EXCEPT ![t.h].rPc = "open"],
               {[t EXCEPT !.at = "setRemoteDescription"]})

\* The page's offer handler without its check of isBusy.
OnOffer_NoBusyCheck(i, c, chs, m) ==
    IF c.myMode # "receiver" THEN PageResult(c, chs, {})
    ELSE LET r == closePeerConnection(i, [c EXCEPT !.isBusy = TRUE], chs)
             t == [fn |-> "offer", c |-> i, h |-> m.offer, at |-> "getIceConfig",
                   fromId |-> m.fromId, pc |-> 0, arr |-> <<>>, n |-> 0]
         IN  IF r.c.ICE_CONFIG = "null" THEN PageResult(r.c, r.chs, {t})
             ELSE AcceptOffer(i, r.c, r.chs, t)

\* socket.on("offer") of the page (app.js 291-326) up to its first await
OnOffer(i, c, chs, m) ==
    IF c.myMode # "receiver" THEN PageResult(c, chs, {})
    ELSE IF c.isBusy THEN PageResult(c, chs, {})
    ELSE LET r == closePeerConnection(i, [c EXCEPT !.isBusy = TRUE], chs)
             t == [fn |-> "offer", c |-> i, h |-> m.offer, at |-> "getIceConfig",
                   fromId |-> m.fromId, pc |-> 0, arr |-> <<>>, n |-> 0]
         IN  IF r.c.ICE_CONFIG = "null" THEN PageResult(r.c, r.chs, {t})
             ELSE AcceptOffer(i, r.c, r.chs, t)

\* Whether page i's end of the connection ch is open with its remote
\* description set.
HasRemote(ch, i) ==
    IF ch.s = i THEN ch.sPc = "open" /\ ch.sRemote ELSE ch.rPc = "open" /\ ch.rRemote

\* peerConnection.addIceCandidate(k) of page i, whose current connection is g:
\* the connection takes the candidate when it has a remote description; the
\* call throws (g is null) or rejects otherwise, which every caller catches.
addIceCandidate(chs, g, i, k) ==
    IF g = 0 \/ ~HasRemote(chs[g], i) THEN chs
    ELSE IF chs[g].s = i THEN [chs EXCEPT ![g].sApplied = Append(@, k)]
    ELSE [chs EXCEPT ![g].rApplied = Append(@, k)]

\* flushPendingCandidates (app.js 356-362) up to its first await: with nothing
\* pending it assigns the empty array and returns; otherwise it calls
\* addIceCandidate with the first pending candidate and waits, and the handler
\* t that called it waits with it, at the n-th element of the array arr.
flushPendingCandidates(i, c, chs, t) ==
    IF c.pendingCandidates = <<>> THEN [done |-> TRUE, c |-> c, chs |-> chs, t |-> t]
    ELSE [done |-> FALSE, c |-> c,
          chs |-> addIceCandidate(chs, c.peerConnection, i, c.pendingCandidates[1]),
          t |-> [t EXCEPT !.at = "flush", !.arr = c.pendingCandidates, !.n = 1]]

\* socket.on("answer") of the page (app.js 329-339): setRemoteDescription on
\* the page's current connection takes the answer to that connection's own
\* offer and rejects any other; then flushPendingCandidates.
OnAnswer(i, c, chs, m) ==
    LET g == c.peerConnection
    IN  IF g = 0 THEN PageResult(c, chs, {})
        ELSE IF g = m.answer /\ chs[g].s = i /\ chs[g].sPc = "open" /\ ~chs[g].sRemote
        THEN LET f == flushPendingCandidates(i, c, [chs EXCEPT ![g].sRemote = TRUE],
                                             [fn |-> "answer", c |-> i, h |-> g,
                                              at |-> "setRemoteDescription",
                                              arr |-> <<>>, n |-> 0])
             IN  PageResult(f.c, f.chs, IF f.done THEN {} ELSE {f.t})
        ELSE PageResult(c, chs, {})

\* The connection a candidate was gathered for, and whether page i's end of
\* it has its remote description.
SessionHasRemote(chs, i, k) ==
    IF chs[k.h].s = i THEN chs[k.h].sRemote ELSE chs[k.h].rRemote

\* socket.on("ice-candidate") of the page (app.js 342-354)
OnIceCandidate(i, c, chs, m) ==
    LET g == c.peerConnection
        k == m.candidate
        d == [c EXCEPT !.heard = Append(@, [k |-> k, early |-> ~SessionHasRemote(chs, i, k)])]
    IN  IF g # 0 /\ HasRemote(chs[g], i)
        THEN PageResult(d, addIceCandidate(chs, g, i, k), {})
        ELSE PageResult([d EXCEPT !.pendingCandidates = Append(@, k)], chs, {})

\* renderPeerList (app.js 367-403)
\* renderPeerList that renders the list and leaves the selection as it is.
renderPeerList_KeepsSelection(c, list) == [c EXCEPT !.peerList = list]

renderPeerList(c, list) ==
    IF c.selectedPeerId # 0 /\ ~Has(list, c.selectedPeerId)
    THEN [c EXCEPT !.peerList = list, !.selectedPeerId = 0, !.selectedPeerName = "",
                   !.btnSendDisabled = TRUE]
    ELSE [c EXCEPT !.peerList = list]

\* The page's handler of the message m of the server
OnMessage(i, c, chs, m) ==
    IF m.type = "self-identity"
    THEN PageResult([c EXCEPT !.myId = m.id, !.myName = m.name], chs, {})
    ELSE IF m.type = "peer-list"
    THEN PageResult(IF c.myMode = "sender" THEN renderPeerList(c, m.list) ELSE c, chs, {})
    ELSE IF m.type = "offer" THEN OnOffer(i, c, chs, m)
    ELSE IF m.type = "answer" THEN OnAnswer(i, c, chs, m)
    ELSE IF m.type = "ice-candidate" THEN OnIceCandidate(i, c, chs, m)
    ELSE PageResult(c, chs, {})

\* click on modeSend or modeReceive, shown on the mode screen: enterMode
EnterMode(i, mode) ==
    /\ cl[i].myMode = "null"
    /\ cl' = [cl EXCEPT ![i].myMode = mode]
    /\ IF Connected(i) THEN SetMode(i, mode) ELSE UNCHANGED dirVars
    /\ ev' = [op |-> "enterMode", c |-> i]
    /\ UNCHANGED <<chans, tasks>>

\* click on btnChangeSend or btnChangeRecv: resetToModeScreen
ResetToModeScreen(i) ==
    /\ cl[i].myMode # "null"
    /\ LET r == closePeerConnection(i, [cl[i] EXCEPT !.myMode = "null",
                                                      !.selectedPeerId = 0,
                                                      !.selectedPeerName = "",
                                                      !.selectedFile = <<>>,
                                                      !.isBusy = FALSE], chans)
       IN  cl' = [cl EXCEPT ![i] = r.c] /\ chans' = r.chs
    /\ ev' = [op |-> "resetToModeScreen", c |-> i]
    /\ UNCHANGED <<tasks, dirVars>>

\* handleFileSelected
HandleFileSelected(i, file) ==
    /\ cl[i].myMode = "sender"
    /\ cl' = [cl EXCEPT ![i].selectedFile = <<file>>,
                        ![i].btnSendDisabled = (cl[i].selectedPeerId = 0)]
    /\ ev' = [op |-> "fileSelected", c |-> i]
    /\ UNCHANGED <<chans, tasks, dirVars>>

\* click on the k-th item of el.peerList: selectPeer
SelectPeer(i, k) ==
    /\ cl[i].myMode = "sender"
    /\ k \in DOMAIN cl[i].peerList
    /\ cl' = [cl EXCEPT ![i].selectedPeerId = cl[i].peerList[k].id,
                        ![i].selectedPeerName = cl[i].peerList[k].name,
                        ![i].btnSendDisabled = (cl[i].selectedFile = <<>>)]
    /\ ev' = [op |-> "selectPeer", c |-> i]
    /\ UNCHANGED <<chans, tasks, dirVars>>

\* click on btnSend, which the sender view shows and which is not disabled
ClickSend(i) ==
    /\ cl[i].myMode = "sender"
    /\ ~cl[i].btnSendDisabled
    /\ LET r == btnSendClick(i, cl[i], chans)
       IN  /\ Len(r.chs) <= MaxChannels
           /\ cl' = [cl EXCEPT ![i] = r.c]
           /\ chans' = r.chs
           /\ tasks' = tasks \cup r.ts
    /\ ev' = [op |-> "click", c |-> i]
    /\ UNCHANGED dirVars

\* getIceConfig resolves (fetched, or the fallback) and its caller goes on.
IceConfigFetched(t) ==
    /\ t.at = "getIceConfig"
    /\ LET r == IF t.fn = "initiateConnection" THEN CreateOffer(t.c, cl[t.c], chans, t)
                ELSE AcceptOffer(t.c, cl[t.c], chans, t)
       IN  /\ Len(r.chs) <= MaxChannels
           /\ cl' = [cl EXCEPT ![t.c] = r.c]
           /\ chans' = r.chs
           /\ tasks' = (tasks \ {t}) \cup r.ts
    /\ ev' = [op |-> "iceConfig", c |-> t.c]
    /\ UNCHANGED dirVars

\* initiateConnection from the resolution of createOffer (app.js 470) through
\* setLocalDescription on the page's current connection to the emit of the
\* offer; a rejection, or a current connection that is null, ends in the
\* click handler's catch.
OfferCreated(t) ==
    /\ t.at = "createOffer"
    /\ IF cl[t.c].peerConnection = t.h /\ chans[t.h].sPc = "open"
       THEN /\ Len(inbox[t.targetId]) < MaxInbox
            /\ inbox' = IF Connected(t.c)
                        THEN RelayOffer(peers, inbox, t.c, t.targetId, t.h)
                        ELSE inbox
            /\ chans' = [chans EXCEPT ![t.h].sLocal = TRUE]
            /\ ev' = [op |-> "offer", c |-> t.c, targetId |-> t.targetId]
            /\ UNCHANGED cl
       ELSE /\ cl' = [cl EXCEPT ![t.c] = resetTransferUI(@)]
            /\ ev' = [op |-> "offerFailed", c |-> t.c]
            /\ UNCHANGED <<inbox, chans>>
    /\ tasks' = tasks \ {t}
    /\ UNCHANGED <<peers, nextId, lastList>>

\* The offer handler from the return of flushPendingCandidates (app.js 312)
\* to await createAnswer() on the page's current connection (314); a
\* rejection ends in the handler's catch.
CreateAnswer(i, c, chs, t) ==
    LET g == c.peerConnection
    IN  IF g # 0 /\ chs[g].r = i /\ chs[g].rPc = "open" /\ chs[g].rRemote /\ ~chs[g].rLocal
        THEN PageResult(c, chs, {[t EXCEPT !.at = "createAnswer", !.pc = g]})
        ELSE PageResult([c EXCEPT !.isBusy = FALSE], chs, {})

\* The offer handler from the resolution of setRemoteDescription (app.js 311)
\* into flushPendingCandidates, and on to createAnswer when nothing is
\* pending; a rejection ends in the handler's catch.
RemoteDescriptionSet(t) ==
    /\ t.at = "setRemoteDescription"
    /\ t.fn = "offer"
    /\ IF chans[t.h].rPc = "open"
       THEN LET f == flushPendingCandidates(t.c, cl[t.c],
                                            [chans EXCEPT ![t.h].rRemote = TRUE], t)
                r == IF f.done THEN CreateAnswer(t.c, f.c, f.chs, t)
                     ELSE PageResult(f.c, f.chs, {f.t})
            IN  /\ cl' = [cl EXCEPT ![t.c] = r.c]
                /\ chans' = r.chs
                /\ tasks' = (tasks \ {t}) \cup r.ts
       ELSE /\ cl' = [cl EXCEPT ![t.c].isBusy = FALSE]
            /\ tasks' = tasks \ {t}
            /\ UNCHANGED chans
    /\ ev' = [op |-> "remoteDescription", c |-> t.c]
    /\ UNCHANGED dirVars

\* flushPendingCandidates from the settling of an addIceCandidate (app.js 358):
\* the next element of the array goes to the page's current connection, or the
\* loop ends, pendingCandidates is assigned the empty array, and the handler
\* that called goes on.
FlushStep(t) ==
    /\ t.at = "flush"
    /\ IF t.n < Len(t.arr)
       THEN /\ chans' = addIceCandidate(chans, cl[t.c].peerConnection, t.c, t.arr[t.n + 1])
            /\ tasks' = (tasks \ {t}) \cup {[t EXCEPT !.n = t.n + 1]}
            /\ UNCHANGED cl
       ELSE LET d == [cl[t.c] EXCEPT !.pendingCandidates = <<>>]
                r == IF t.fn = "offer" THEN CreateAnswer(t.c, d, chans, t)
                     ELSE PageResult(d, chans, {})
            IN  /\ cl' = [cl EXCEPT ![t.c] = r.c]
                /\ chans' = r.chs
                /\ tasks' = (tasks \ {t}) \cup r.ts
    /\ ev' = [op |-> "flush", c |-> t.c]
    /\ UNCHANGED dirVars

\* The offer handler from the resolution of createAnswer (app.js 316) through
\* setLocalDescription on the page's current connection to the emit of the
\* answer.
AnswerCreated(t) ==
    /\ t.at = "createAnswer"
    /\ IF cl[t.c].peerConnection = t.pc /\ chans[t.pc].rPc = "open" /\ ~chans[t.pc].rLocal
       THEN /\ Len(inbox[t.fromId]) < MaxInbox
            /\ chans' = [chans EXCEPT ![t.pc].rLocal = TRUE]
            /\ inbox' = IF Connected(t.c)
                        THEN RelayAnswer(peers, inbox, t.c, t.fromId, t.pc)
                        ELSE inbox
            /\ ev' = [op |-> "answer", c |-> t.c, targetId |-> t.fromId]
            /\ UNCHANGED cl
       ELSE /\ cl' = [cl EXCEPT ![t.c].isBusy = FALSE]
            /\ ev' = [op |-> "answerFailed", c |-> t.c]
            /\ UNCHANGED <<inbox, chans>>
    /\ tasks' = tasks \ {t}
    /\ UNCHANGED <<peers, nextId, lastList>>

\* The page's socket receives the oldest message in flight to it. The record
\* of the step keeps the selectedPeerId the page had when the message came.
PageDeliver(i) ==
    /\ Deliver(i)
    /\ LET m == Head(inbox[i])
           r == OnMessage(i, cl[i], chans, m)
       IN  /\ cl' = [cl EXCEPT ![i] = r.c]
           /\ chans' = r.chs
           /\ tasks' = tasks \cup r.ts
           /\ ev' = [op |-> "deliver", c |-> i, m |-> m, sel |-> cl[i].selectedPeerId]

\* The page's socket drops: the server's and the page's "disconnect" handlers.
SocketDisconnect(i) ==
    /\ Connected(i)
    /\ Disconnect(i)
    /\ LET r == closePeerConnection(i, cl[i], chans)
       IN  cl' = [cl EXCEPT ![i] = r.c] /\ chans' = r.chs
    /\ ev' = [op |-> "disconnect", c |-> i]
    /\ UNCHANGED tasks

\* Page 1 is in sender mode and page 2 in receiver mode, and the server's
\* messages about that have been delivered. The user of page 1 picks a file
\* and a receiver and sends, again and again; the user of page 2 leaves
\* receiver mode for sender mode, or loses the connection to the server.
Sender == 1
Target == 2
PickedFiles == {f \in Files : f.size = 1 /\ f.type # ""}

InitClient ==
    /\ Registered(<<"sender", "receiver">>)
    /\ cl = <<[Page(Sender, "sender") EXCEPT !.peerList = getPeerListFor(peers, Sender)],
              Page(Target, "receiver")>>
    /\ chans = <<>>
    /\ tasks = {}
    /\ ev = [op |-> "init"]

NextClient ==
    \/ EnterMode(Target, "sender")
    \/ ResetToModeScreen(Target)
    \/ SocketDisconnect(Target)
    \/ \E file \in PickedFiles : HandleFileSelected(Sender, file)
    \/ \E k \in DOMAIN cl[Sender].peerList : SelectPeer(Sender, k)
    \/ ClickSend(Sender)
    \/ \E t \in tasks : IceConfigFetched(t)
    \/ \E t \in tasks : OfferCreated(t)
    \/ \E t \in tasks : RemoteDescriptionSet(t)
    \/ \E t \in tasks : AnswerCreated(t)
    \/ \E i \in DOMAIN cl : PageDeliver(i)
    \/ \E h \in DOMAIN chans : SenderChannelOpen(h) /\ UNCHANGED dirVars
    \/ \E h \in DOMAIN chans : ReceiverDataChannel(h) /\ UNCHANGED dirVars
    \/ \E t \in tasks : ReadChunkResolved(t) /\ UNCHANGED dirVars
    \/ \E h \in DOMAIN chans : Transmit(h) /\ UNCHANGED dirVars
    \/ \E h \in DOMAIN chans : Receive(h) /\ UNCHANGED dirVars
    \/ \E h \in DOMAIN chans : RxChannelClose(h) /\ UNCHANGED dirVars

SpecClient == InitClient /\ [][NextClient]_vars

\* ------------------------------------------- SpecIce: network candidates
\* The two pages and the server of SpecClient during the set-up of a session:
\* each connection gathers up to MaxCand candidates once it has its local
\* description, and the page emits each to the other end through the server.
\* The candidate n of the end e of the connection h is [h, e, n].
\* Candidates a connection gathers over a run.
MaxCand == 2
Candidate(h, e, n) == [h |-> h, e |-> e, n |-> n]

\* pc.onicecandidate of the sender's connection h (app.js 481-483, set up with
\* the targetId of initiateConnection) and the server's "ice-candidate"
SenderCandidate(h) ==
    /\ chans[h].sPc = "open" /\ chans[h].sLocal
    /\ chans[h].sCands < MaxCand
    /\ Connected(chans[h].s)
    /\ Len(inbox[chans[h].r]) < MaxInbox
    /\ chans' = [chans EXCEPT ![h].sCands = @ + 1]
    /\ inbox' = RelayIceCandidate(peers, inbox, chans[h].s, chans[h].r,
                                  Candidate(h, "s", chans[h].sCands + 1))
    /\ ev' = [op |-> "candidate", c |-> chans[h].s]
    /\ UNCHANGED <<peers, nextId, lastList, cl, tasks>>

\* pc.onicecandidate of the receiver's connection h (app.js 481-483, set up
\* with the fromId of the offer) and the server's "ice-candidate"
ReceiverCandidate(h) ==
    /\ chans[h].rPc = "open" /\ chans[h].rLocal
    /\ chans[h].rCands < MaxCand
    /\ Connected(chans[h].r)
    /\ Len(inbox[chans[h].s]) < MaxInbox
    /\ chans' = [chans EXCEPT ![h].rCands = @ + 1]
    /\ inbox' = RelayIceCandidate(peers, inbox, chans[h].r, chans[h].s,
                                  Candidate(h, "r", chans[h].rCands + 1))
    /\ ev' = [op |-> "candidate", c |-> chans[h].r]
    /\ UNCHANGED <<peers, nextId, lastList, cl, tasks>>

\* The sender has picked the file and the receiver. Its user sends; the
\* receiver's user leaves receiver mode, or its socket drops.
InitIce ==
    /\ Registered(<<"sender", "receiver">>)
    /\ \E file \in PickedFiles :
          cl = <<[Page(Sender, "sender") EXCEPT !.peerList = getPeerListFor(peers, Sender),
                                               !.selectedPeerId = Target,
                                               !.selectedPeerName = Get(peers, Target).name,
                                               !.selectedFile = <<file>>,
                                               !.btnSendDisabled = FALSE],
                 Page(Target, "receiver")>>
    /\ chans = <<>>
    /\ tasks = {}
    /\ ev = [op |-> "init"]

NextIce ==
    \/ ResetToModeScreen(Target)
    \/ SocketDisconnect(Target)
    \/ ClickSend(Sender)
    \/ \E t \in tasks : IceConfigFetched(t)
    \/ \E t \in tasks : OfferCreated(t)
    \/ \E t \in tasks : RemoteDescriptionSet(t)
    \/ \E t \in tasks : FlushStep(t)
    \/ \E t \in tasks : AnswerCreated(t)
    \/ \E h \in DOMAIN chans : SenderCandidate(h)
    \/ \E h \in DOMAIN chans : ReceiverCandidate(h)
    \/ \E i \in DOMAIN cl : PageDeliver(i)

SpecIce == InitIce /\ [][NextIce]_vars

\* --------------------------------------- SpecCross: a second sending page
\* The pages and the server of SpecIce and a third page, in sender mode too,
\* that has picked a file and the same receiver. Both users send.
Other == 3

InitCross ==
    /\ Registered(<<"sender", "receiver", "sender">>)
    /\ \E file \in PickedFiles :
          LET Picked(i) == [Page(i, "sender") EXCEPT
                               !.peerList = getPeerListFor(peers, i),
                               !.selectedPeerId = Target,
                               !.selectedPeerName = Get(peers, Target).name,
                               !.selectedFile = <<file>>,
                               !.btnSendDisabled = FALSE]
          IN  cl = <<Picked(Sender), Page(Target, "receiver"), Picked(Other)>>
    /\ chans = <<>>
    /\ tasks = {}
    /\ ev = [op |-> "init"]

NextCross ==
    \/ ClickSend(Sender)
    \/ ClickSend(Other)
    \/ \E t \in tasks : IceConfigFetched(t)
    \/ \E t \in tasks : OfferCreated(t)
    \/ \E t \in tasks : RemoteDescriptionSet(t)
    \/ \E t \in tasks : FlushStep(t)
    \/ \E t \in tasks : AnswerCreated(t)
    \/ \E h \in DOMAIN chans : SenderCandidate(h)
    \/ \E h \in DOMAIN chans : ReceiverCandidate(h)
    \/ \E i \in DOMAIN cl : PageDeliver(i)

SpecCross == InitCross /\ [][NextCross]_vars

\* --------------------------------------- SpecSelect: the sender's selection
\* Page 1 is in sender mode and pages 2 and 3 are in receiver mode. The user
\* of page 1 picks a file, selects a peer of the list the page shows, and
\* goes back to the mode screen and on to either mode; the user of page 2
\* leaves receiver mode and enters it again; the sockets of pages 2 and 3
\* drop. The list a page shows is the one renderPeerList has rendered last,
\* whatever the page's mode was since.
InitSelect ==
    /\ Registered(<<"sender", "receiver", "receiver">>)
    /\ cl = <<[Page(1, "sender") EXCEPT !.peerList = getPeerListFor(peers, 1)],
              Page(2, "receiver"), Page(3, "receiver")>>
    /\ chans = <<>>
    /\ tasks = {}
    /\ ev = [op |-> "init"]

NextSelect ==
    \/ \E mode \in {"sender", "receiver"} : EnterMode(Sender, mode)
    \/ EnterMode(Target, "receiver")
    \/ \E i \in {Sender, Target} : ResetToModeScreen(i)
    \/ \E i \in {Target, Other} : SocketDisconnect(i)
    \/ \E file \in PickedFiles : HandleFileSelected(Sender, file)
    \/ \E k \in DOMAIN cl[Sender].peerList : SelectPeer(Sender, k)
    \/ \E i \in DOMAIN cl : PageDeliver(i)

SpecSelect == InitSelect /\ [][NextSelect]_vars

\* ------------------------------------- SpecConfig: the ICE configuration
\* GET /api/ice-servers of the v2 server and getIceConfig of the page. The
\* server's environment says which of its five variables are set; the
\* credential service answers the server's request in one of the ways of
\* MeteredReplies; the page's fetch is answered by the endpoint, by a
\* response with a non-OK status or with a body that is no JSON (another
\* revision's catch-all route), or fails.
DefaultStun ==
    <<[urls |-> "stun:stun.l.google.com:19302"],
      [urls |-> "stun:stun1.l.google.com:19302"],
      [urls |-> "stun:stun2.l.google.com:19302"]>>
Envs ==
    [METERED_API_KEY : BOOLEAN, METERED_APP_NAME : BOOLEAN,
     TURN_URL : BOOLEAN, TURN_USERNAME : BOOLEAN, TURN_CREDENTIAL : BOOLEAN]
MeteredTurn == [urls |-> "turn:metered", username |-> "u", credential |-> "c"]
\* fetch(url) rejects; or resolves with a status that is not OK, with a body
\* that is no JSON, with a JSON value that cannot be spread, or with an array.
MeteredReplies ==
    {[kind |-> "unreachable", servers |-> <<>>],
     [kind |-> "notOk", servers |-> <<>>],
     [kind |-> "notJson", servers |-> <<>>],
     [kind |-> "notIterable", servers |-> <<>>],
     [kind |-> "array", servers |-> <<>>],
     [kind |-> "array", servers |-> <<MeteredTurn>>]}
ManualTurn(tcp) ==
    [urls |-> IF tcp THEN "turn:manual?transport=tcp" ELSE "turn:manual",
     username |-> "user", credential |-> "cred"]

\* The iceServers of the endpoint's response (part_000 52-96)
iceServersOf(env, reply) ==
    LET option_a == IF env.METERED_API_KEY /\ env.METERED_APP_NAME /\ reply.kind = "array"
                    THEN DefaultStun \o reply.servers
                    ELSE DefaultStun
    IN  IF env.TURN_URL /\ env.TURN_USERNAME /\ env.TURN_CREDENTIAL
        THEN option_a \o <<ManualTurn(FALSE), ManualTurn(TRUE)>>
        ELSE option_a

\* The fixed list of getIceConfig (app.js 40-45)
FallbackConfig ==
    [iceServers |-> <<[urls |-> "stun:stun.l.google.com:19302"],
                      [urls |-> "stun:stun1.l.google.com:19302"]>>]

\* What the page's fetch settles with: a rejection, or a response.
FetchRejected == [kind |-> "rejected", ok |-> FALSE, json |-> <<>>]
Response(ok, json) == [kind |-> "response", ok |-> ok, json |-> json]

\* getIceConfig that lets the failure of the fetch through.
AfterFetch_NoCatch(res) ==
    IF res.kind = "rejected" \/ ~res.ok \/ res.json = <<>>
    THEN [settled |-> "rejected", value |-> <<>>]
    ELSE [settled |-> "fulfilled", value |-> <<res.json[1]>>]

\* getIceConfig from the settling of its fetch (app.js 34-47): what the
\* promise it returned settles with. json is <<>> for a body that is no JSON.
AfterFetch(res) ==
    IF res.kind = "rejected" \/ ~res.ok \/ res.json = <<>>
    THEN [settled |-> "fulfilled", value |-> <<FallbackConfig>>]
    ELSE [settled |-> "fulfilled", value |-> <<res.json[1]>>]

\* Calls of getIceConfig over a run.
MaxCalls == 2

\* getIceConfig() up to its await (app.js 31-34)
GetIceConfig ==
    /\ ev.calls < MaxCalls
    /\ IF cl[1].ICE_CONFIG # <<>>
       THEN /\ ev' = [ev EXCEPT !.op = "cached", !.calls = @ + 1, !.how = "cache",
                                !.result = [settled |-> "fulfilled",
                                            value |-> cl[1].ICE_CONFIG]]
            /\ UNCHANGED tasks
       ELSE /\ tasks' = tasks \cup {[fn |-> "getIceConfig", n |-> ev.calls + 1,
                                     res |-> <<>>]}
            /\ ev' = [ev EXCEPT !.op = "fetch", !.calls = @ + 1]
    /\ UNCHANGED <<cl, chans, dirVars>>

\* The request does not reach the server, or its response does not come back.
FetchFails(t) ==
    /\ t.res = <<>>
    /\ tasks' = (tasks \ {t}) \cup {[t EXCEPT !.res = <<FetchRejected>>]}
    /\ ev' = [ev EXCEPT !.op = "fetchFails"]
    /\ UNCHANGED <<cl, chans, dirVars>>

\* The endpoint answers, after the credential service has answered it.
EndpointResponds(t, reply) ==
    /\ t.res = <<>>
    /\ LET body == [iceServers |-> iceServersOf(ev.env, reply)]
       IN  /\ tasks' = (tasks \ {t}) \cup {[t EXCEPT !.res = <<Response(TRUE, <<body>>)>>]}
           /\ ev' = [ev EXCEPT !.op = "endpoint", !.sent = <<body>>]
    /\ UNCHANGED <<cl, chans, dirVars>>

\* Something else answers: a status that is not OK, or a page of HTML.
OtherResponds(t, ok) ==
    /\ t.res = <<>>
    /\ tasks' = (tasks \ {t}) \cup {[t EXCEPT !.res = <<Response(ok, <<>>)>>]}
    /\ ev' = [ev EXCEPT !.op = "other"]
    /\ UNCHANGED <<cl, chans, dirVars>>

\* The fetch settles and getIceConfig goes on to its return.
FetchSettled(t) ==
    /\ t.res # <<>>
    /\ LET r == AfterFetch(t.res[1])
       IN  /\ cl' = [cl EXCEPT ![1].ICE_CONFIG = r.value]
           /\ ev' = [ev EXCEPT !.op = "settled", !.result = r,
                               !.how = IF t.res[1].kind = "rejected" THEN "rejected"
                                       ELSE IF ~t.res[1].ok THEN "notOk"
                                       ELSE IF t.res[1].json = <<>> THEN "notJson"
                                       ELSE "json"]
    /\ tasks' = tasks \ {t}
    /\ UNCHANGED <<chans, dirVars>>

InitConfig ==
    /\ DirInit
    /\ cl = <<[ICE_CONFIG |-> <<>>]>>
    /\ chans = <<>>
    /\ tasks = {}
    /\ \E env \in Envs :
          ev = [op |-> "init", env |-> env, calls |-> 0, how |-> "", sent |-> <<>>,
                result |-> [settled |-> "pending", value |-> <<>>]]

NextConfig ==
    \/ GetIceConfig
    \/ \E t \in tasks : FetchFails(t)
    \/ \E t \in tasks, reply \in MeteredReplies : EndpointResponds(t, reply)
    \/ \E t \in tasks, ok \in BOOLEAN : OtherResponds(t, ok)
    \/ \E t \in tasks : FetchSettled(t)

SpecConfig == InitConfig /\ [][NextConfig]_vars

\* ------------------------------------------------ SpecRelay: the v3 relay
\* The v3 server relays the transfer itself. Its client is not part of the
\* sources; what a client does here is what the server's comments (part_002
\* 9-12, 108-114) say of it: a sender emits "file-chunk" with an
\* acknowledgement callback and reads and sends the next chunk when the
\* acknowledgement arrives. A client is the record
\*   out      what it has emitted and the server has not handled yet
\*   emits    how many messages it has emitted (the id of the next one)
\*   state    "idle", "sending", "done" or "cancelled"
\*   next     the chunkIndex it sends next
\*   waiting  whether a chunk of it is not acknowledged yet
\*   acks     the acknowledgements its callbacks were called with
\*   got      the payloads of the "file-chunk" messages it has received
\* Chunks of a relayed file: chunkIndex 0..MaxIndex.
MaxIndex == 2
\* Messages a client that follows no discipline emits over a run.
MaxForeign == 2

RelayClient ==
    [out |-> <<>>, emits |-> 0, state |-> "idle", next |-> 0, waiting |-> FALSE,
     acks |-> <<>>, got |-> <<>>]

\* The n-th slice of the file of client from.
Slice(from, n) == [from |-> from, n |-> n]

\* emit("file-chunk", {targetId, chunk, chunkIndex}, ack): ack says whether a
\* callback is passed, id is the number of the emit on its socket.
FileChunk(id, targetId, chunk, chunkIndex, ack) ==
    [type |-> "file-chunk", id |-> id, targetId |-> targetId, chunk |-> chunk,
     chunkIndex |-> chunkIndex, ack |-> ack]

\* ack(value) of the server: the callback of emit id is called with value.
Ack(id, value) == [type |-> "ack", id |-> id, value |-> value]
Forwarded(m) == [type |-> "file-chunk", chunk |-> m.chunk, chunkIndex |-> m.chunkIndex]

\* socket.on("file-chunk") that acknowledges "ok" whether or not the target
\* is registered.
RelayFileChunk_AlwaysOk(ps, box, from, m) ==
    LET fwd == IF ~Has(ps, m.targetId) THEN box
               ELSE [box EXCEPT ![m.targetId] = Append(@, Forwarded(m))]
    IN  IF m.ack THEN [fwd EXCEPT ![from] = Append(@, Ack(m.id, "ok"))] ELSE fwd

\* socket.on("file-chunk") that hands the chunk to the target ahead of what
\* is in flight to it.
RelayFileChunk_Overtaking(ps, box, from, m) ==
    IF ~Has(ps, m.targetId)
    THEN IF m.ack THEN [box EXCEPT ![from] = Append(@, Ack(m.id, "no-peer"))] ELSE box
    ELSE LET fwd == [box EXCEPT ![m.targetId] = <<Forwarded(m)>> \o @]
         IN  IF m.ack THEN [fwd EXCEPT ![from] = Append(@, Ack(m.id, "ok"))] ELSE fwd

\* socket.on("file-chunk") of the server (part_002 115-124)
RelayFileChunk(ps, box, from, m) ==
    IF ~Has(ps, m.targetId)
    THEN IF m.ack THEN [box EXCEPT ![from] = Append(@, Ack(m.id, "no-peer"))] ELSE box
    ELSE LET fwd == [box EXCEPT ![m.targetId] = Append(@, Forwarded(m))]
         IN  IF m.ack THEN [fwd EXCEPT ![from] = Append(@, Ack(m.id, "ok"))] ELSE fwd

\* The sending client starts the transfer of its file toward Target.
RelaySender == 1
RelayTarget == 2
Foreign == 3

RelayStart(s) ==
    /\ Connected(s)
    /\ cl[s].state = "idle"
    /\ cl' = [cl EXCEPT ![s].state = "sending", ![s].next = 0]
    /\ ev' = [op |-> "start", c |-> s]
    /\ UNCHANGED <<chans, tasks, dirVars>>

\* The sending client emits the chunk it is at, with a callback.
RelaySendChunk(s, targetId) ==
    /\ Connected(s)
    /\ cl[s].state = "sending"
    /\ ~cl[s].waiting
    /\ cl[s].next <= MaxIndex
    /\ cl' = [cl EXCEPT ![s].out = Append(@, FileChunk(cl[s].emits, targetId,
                                                          Slice(s, cl[s].next),
                                                          cl[s].next, TRUE)),
                        ![s].emits = @ + 1,
                        ![s].waiting = TRUE]
    /\ ev' = [op |-> "emit", c |-> s]
    /\ UNCHANGED <<chans, tasks, dirVars>>

\* A client emits a "file-chunk" of its own making.
ForeignEmit(s, targetId, chunkIndex, ack) ==
    /\ Connected(s)
    /\ cl[s].emits < MaxForeign
    /\ cl' = [cl EXCEPT ![s].out = Append(@, FileChunk(cl[s].emits, targetId,
                                                          Slice(s, chunkIndex),
                                                          chunkIndex, ack)),
                        ![s].emits = @ + 1]
    /\ ev' = [op |-> "emit", c |-> s]
    /\ UNCHANGED <<chans, tasks, dirVars>>

\* The server handles the oldest message of socket s.
ServerFileChunk(s) ==
    /\ Connected(s)
    /\ cl[s].out # <<>>
    /\ Room
    /\ LET m == Head(cl[s].out)
       IN  /\ inbox' = RelayFileChunk(peers, inbox, s, m)
           /\ ev' = [op |-> "file-chunk", from |-> s, m |-> m]
    /\ cl' = [cl EXCEPT ![s].out = Tail(@)]
    /\ UNCHANGED <<peers, nextId, lastList, chans, tasks>>

\* What the client does with the message m of the server.
OnRelayMessage(c, m) ==
    IF m.type = "file-chunk"
    THEN [c EXCEPT !.got = Append(@, [chunk |-> m.chunk, chunkIndex |-> m.chunkIndex])]
    ELSE IF m.type = "ack"
    THEN LET d == [c EXCEPT !.acks = Append(@, [id |-> m.id, value |-> m.value])]
         IN  IF c.state # "sending" \/ ~c.waiting THEN d
             ELSE IF m.value = "ok"
             THEN [d EXCEPT !.waiting = FALSE, !.next = @ + 1,
                            !.state = IF c.next = MaxIndex THEN "done" ELSE @]
             ELSE [d EXCEPT !.waiting = FALSE, !.state = "cancelled"]
    ELSE c

RelayDeliver(i) ==
    /\ Deliver(i)
    /\ cl' = [cl EXCEPT ![i] = OnRelayMessage(@, Head(inbox[i]))]
    /\ ev' = [op |-> "deliver", c |-> i, m |-> Head(inbox[i])]
    /\ UNCHANGED <<chans, tasks>>

\* The socket of client i drops (part_002 143-148); what it has emitted and
\* the server has not handled is lost.
RelayDisconnect(i) ==
    /\ Disconnect(i)
    /\ cl' = [cl EXCEPT ![i].out = <<>>]
    /\ ev' = [op |-> "disconnect", c |-> i]
    /\ UNCHANGED <<chans, tasks>>

InitRelay ==
    /\ Registered(<<"sender", "receiver", "sender">>)
    /\ cl = [i \in 1..3 |-> RelayClient]
    /\ chans = <<>>
    /\ tasks = {}
    /\ ev = [op |-> "init"]

NextRelay ==
    \/ RelayStart(RelaySender)
    \/ RelaySendChunk(RelaySender, RelayTarget)
    \/ \E targetId \in {RelayTarget, Foreign}, ack \in BOOLEAN :
          ForeignEmit(Foreign, targetId, MaxIndex, ack)
    \/ \E s \in DOMAIN cl : ServerFileChunk(s)
    \/ \E i \in DOMAIN cl : RelayDeliver(i)
    \/ RelayDisconnect(RelayTarget)

SpecRelay == InitRelay /\ [][NextRelay]_vars

\* ------------------------------------- SpecSignal: the signaling relay
\* Any connected socket emits "offer", "answer" or "ice-candidate" with any
\* targetId; what it sends along (payload) is of its own making and names a
\* fromId of its choice, which the handlers do not read.
SignalKinds == {"offer", "answer", "ice-candidate"}
Payloads == {[sdp |-> "v=0", fromId |-> id] : id \in {2}}

\* Messages in flight from the server, to all connections together.
RECURSIVE InFlight(_)
InFlight(n) == IF n = 0 THEN 0 ELSE Len(inbox[n]) + InFlight(n - 1)

\* The handlers of the three messages (part_000 170-188), run while fewer
\* than MaxInbox messages are in flight.
Signal(from, kind, targetId, payload) ==
    /\ Connected(from)
    /\ InFlight(MaxConn) < MaxInbox
    /\ inbox' = IF kind = "offer" THEN RelayOffer(peers, inbox, from, targetId, payload)
                ELSE IF kind = "answer"
                THEN RelayAnswer(peers, inbox, from, targetId, payload)
                ELSE RelayIceCandidate(peers, inbox, from, targetId, payload)
    /\ ev' = [op |-> "signal", kind |-> kind, from |-> from, targetId |-> targetId,
              payload |-> payload]
    /\ UNCHANGED <<peers, nextId, lastList, cl, chans, tasks>>

InitSignal ==
    /\ Registered(<<"sender", "receiver", "none">>)
    /\ NoClients

NextSignal ==
    \/ \E from \in Ids, kind \in SignalKinds, targetId \in Ids, payload \in Payloads :
          Signal(from, kind, targetId, payload)
    \/ \E id \in Ids : Disconnect(id) /\ ev' = [op |-> "disconnect"]
                          /\ UNCHANGED <<cl, chans, tasks>>
    \/ \E id \in Ids : Deliver(id) /\ ev' = [op |-> "deliver"]
                          /\ UNCHANGED <<cl, chans, tasks>>

SpecSignal == InitSignal /\ [][NextSignal]_vars

\* ------------------------------------------------------------- claims
Range(q) == {q[i] : i \in DOMAIN q}
IsPeerList(m) == m.type = "peer-list"
PeerListsIn(q) == Len(SelectSeq(q, IsPeerList))

\* ------------------------------------------------------ claims: directory

\* C1: once every message emitted to a peer whose stored mode is "sender" has
\* been delivered, the last peer-list that peer received holds exactly the
\* registered peers whose mode is "receiver", itself excluded. (Stated per
\* sender: it covers the state in which all messages of all peers are
\* delivered.)
C1_SenderViewSettled ==
    \A i \in DOMAIN peers :
        (peers[i].mode = "sender" /\ inbox[peers[i].id] = <<>>)
            => Range(lastList[peers[i].id]) =
                   {p \in Range(peers) : p.mode = "receiver" /\ p.id # peers[i].id}

\* Reached: a settled sender whose last list names two receivers, while
\* the directory has seen a peer leave or change its mode before.
C1_Witness ==
    \E i \in DOMAIN peers :
        /\ peers[i].mode = "sender"
        /\ inbox[peers[i].id] = <<>>
        /\ Len(lastList[peers[i].id]) = 2

\* C2: getPeerListFor is empty for every id whose stored mode is "none" or
\* "receiver" and for every id not in the directory, and every peer-list
\* message emitted to such a peer is empty.
C2_NonSenderViewEmpty ==
    \A id \in Ids : ModeOf(peers, id) # "sender" => getPeerListFor(peers, id) = <<>>

C2_NonSenderEmission ==
    \A id \in Ids :
        (Len(inbox'[id]) > Len(inbox[id]) /\ ModeOf(peers', id) # "sender")
            => \A k \in (Len(inbox[id]) + 1)..Len(inbox'[id]) :
                   IsPeerList(inbox'[id][k]) => inbox'[id][k].list = <<>>

C2_NonSenderSeesNothing ==
    [](C2_NonSenderViewEmpty) /\ [][C2_NonSenderEmission]_vars

\* Reached: an empty peer-list is in flight to a receiver while a sender and
\* another receiver are registered.
C2_Witness ==
    \E i, j, k \in DOMAIN peers :
        /\ peers[i].mode = "receiver"
        /\ peers[j].mode = "sender"
        /\ peers[k].mode = "receiver" /\ k # i
        /\ inbox[peers[i].id] # <<>>
        /\ IsPeerList(inbox[peers[i].id][Len(inbox[peers[i].id])])

\* C3: a handler that registers a connection, applies a valid set-mode or
\* removes a connection emits, in the same step, exactly one peer-list to
\* every peer in the directory after the mutation, carrying that peer's view
\* of the directory after the mutation.
ModeConfirmedTo(id) ==
    \E k \in (Len(inbox[id]) + 1)..Len(inbox'[id]) : inbox'[id][k].type = "mode-confirmed"

DirectoryMutated == peers' # peers \/ \E id \in Ids : ModeConfirmedTo(id)

C3_Emission ==
    DirectoryMutated =>
        \A p \in Range(peers') :
            LET old == inbox[p.id]
                new == inbox'[p.id]
            IN  /\ Len(new) > Len(old)
                /\ SubSeq(new, 1, Len(old)) = old
                /\ PeerListsIn(new) = PeerListsIn(old) + 1
                /\ new[Len(new)] = PeerListMsg(getPeerListFor(peers', p.id))

C3_MutationBroadcasts == [][C3_Emission]_vars

\* Reached: a peer-list naming a receiver is in flight to a sender while a
\* peer-list is in flight to each of the two other peers as well.
C3_Witness ==
    /\ Len(peers) = 3
    /\ \A i \in DOMAIN peers :
           /\ inbox[peers[i].id] # <<>>
           /\ IsPeerList(inbox[peers[i].id][Len(inbox[peers[i].id])])
    /\ \E i \in DOMAIN peers :
           /\ peers[i].mode = "sender"
           /\ inbox[peers[i].id][Len(inbox[peers[i].id])].list # <<>>

\* --------------------------------------------------------- claims: pages
OfferDelivered(i) == ev'.op = "deliver" /\ ev'.c = i /\ ev'.m.type = "offer"

\* C4: when the offer handler of a page runs with isBusy true, the page's
\* globals (peerConnection, dataChannel, pendingCandidates, rx and isBusy
\* among them), every connection and channel and every suspended handler are
\* as before and nothing is sent to anybody; and an offer is accepted, which
\* makes the page busy, only by a page in receiver mode that is not busy.
C4_OfferStep ==
    \A i \in DOMAIN cl :
        /\ (OfferDelivered(i) /\ cl[i].isBusy)
              => /\ cl'[i] = cl[i]
                 /\ chans' = chans
                 /\ tasks' = tasks
                 /\ peers' = peers
                 /\ inbox' = [inbox EXCEPT ![i] = Tail(@)]
        /\ (OfferDelivered(i) /\ tasks' # tasks)
              => /\ ~cl[i].isBusy
                 /\ cl[i].myMode = "receiver"
                 /\ cl'[i].isBusy

C5_ClickStep ==
    \A i \in DOMAIN cl :
        (ev'.op = "click" /\ ev'.c = i /\ cl[i].isBusy)
            => /\ cl' = cl
               /\ chans' = chans
               /\ tasks' = tasks
               /\ <<peers, nextId, inbox, lastList>>' = <<peers, nextId, inbox, lastList>>

C5_BusyClickRejected == [][C5_ClickStep]_vars

\* Reached: page 1 is sending a file on an open channel, its button is
\* enabled, and it has just handled a click.
C5_Witness ==
    /\ ev.op = "click" /\ ev.c = Sender
    /\ cl[Sender].isBusy
    /\ ~cl[Sender].btnSendDisabled
    /\ cl[Sender].dataChannel # 0
    /\ chans[cl[Sender].dataChannel].sState = "open"
    /\ \E t \in tasks : t.fn = "startSendingFile" /\ t.h = cl[Sender].dataChannel

\* C6: when a page emits its offer toward a targetId that is not in the
\* directory, or whose stored mode is not "receiver", nothing is put in
\* flight to the target and the page is not busy afterwards.
C6_StartStep ==
    \A i \in DOMAIN cl :
        (ev'.op = "offer" /\ ev'.c = i /\ ModeOf(peers, ev'.targetId) # "receiver")
            => /\ inbox'[ev'.targetId] = inbox[ev'.targetId]
               /\ ~cl'[i].isBusy

C6_StartTowardNonReceiverRejected == [][C6_StartStep]_vars

\* ------------------------------------------------------- claims: receiver
RxHandled(data) == ev'.op = "message" /\ ev'.data = data
RxHandledBinary == ev'.op = "message" /\ ev'.data.bin
MetaInEffect(c) == c.rx.active /\ c.rx.meta # <<>>
FileOf(meta, chunks) ==
    [name |-> meta.fileName, size |-> meta.fileSize, type |-> meta.fileType,
     url |-> Blob(chunks)]

\* C7: with metadata in effect, the chunk that brings the accumulated byte
\* count to the declared fileSize or beyond finalizes the transfer in its own
\* handler, with no "done" frame: the file is assembled from the chunks held
\* and this one, rx is reset and isBusy is false. So no state holds chunks
\* whose byte count has reached the declared size.
C7_CountReached ==
    MetaInEffect(cl[Rx]) /\ cl[Rx].rx.chunks # <<>>
        => cl[Rx].rx.received < cl[Rx].rx.meta[1].fileSize

C7_ChunkFinalizes ==
    (/\ RxHandledBinary
     /\ MetaInEffect(cl[Rx])
     /\ cl[Rx].rx.received + ev'.data.len >= cl[Rx].rx.meta[1].fileSize)
        => /\ cl'[Rx].rx = NoRx
           /\ ~cl'[Rx].isBusy
           /\ cl'[Rx].receivedFiles =
                  <<FileOf(cl[Rx].rx.meta[1], Append(cl[Rx].rx.chunks, ev'.data))>>
                      \o cl[Rx].receivedFiles

C8_DoneStep ==
    (/\ RxHandled(DoneFrame)
     /\ MetaInEffect(cl[Rx])
     /\ \/ cl[Rx].rx.received < cl[Rx].rx.meta[1].fileSize
        \/ cl[Rx].rx.chunks = <<>>)
        => cl'[Rx].rx = NoRx /\ ~cl'[Rx].isBusy

C8_DoneAlwaysFinalizes == [][C8_DoneStep]_vars

\* C9: a metadata frame yields at most one file. A step adds at most one
\* file, and only by consuming the metadata in effect (rx.meta is null
\* afterwards); only a metadata frame puts metadata in effect; and a "done"
\* frame or a chunk handled when no metadata is in effect changes nothing.
C9_Latch ==
    /\ Len(cl'[Rx].receivedFiles) > Len(cl[Rx].receivedFiles)
          => /\ Len(cl'[Rx].receivedFiles) = Len(cl[Rx].receivedFiles) + 1
             /\ cl[Rx].rx.meta # <<>>
             /\ cl'[Rx].rx.meta = <<>>
    /\ (cl[Rx].rx.meta = <<>> /\ cl'[Rx].rx.meta # <<>>)
          => /\ ev'.op = "message" /\ ~ev'.data.bin
             /\ ev'.data.json.type = "metadata"
    /\ ((RxHandled(DoneFrame) \/ RxHandledBinary) /\ cl[Rx].rx.meta = <<>>)
          => cl' = cl

C9_FinalizeOnce == [][C9_Latch]_vars

\* Reached: the byte count has finalized a transfer and the "done" frame
\* that follows has been handled.
C9_Witness ==
    /\ ev.op = "message" /\ ev.data = DoneFrame
    /\ cl[Rx].rx = NoRx
    /\ cl[Rx].receivedFiles # <<>>
    /\ BlobSize(cl[Rx].receivedFiles[1].url) >= cl[Rx].receivedFiles[1].size

\* ------------------------------------------------------- claims: transfer
IsChunk(data) == data.bin
ChunksSent(h) == SelectSeq(chans[h].log, IsChunk)

\* C10: a file the receiving page has assembled from the session's channel
\* holds the bytes of the chunks the sending page has passed to send(), in
\* the order of the sends, and as many bytes as the chunks' sizes add up to.
C10_AssembledInSendOrder ==
    \A i \in DOMAIN cl[1].receivedFiles :
        LET blob == cl[1].receivedFiles[i].url
        IN  /\ blob = Concat(ChunksSent(1))
            /\ BlobSize(blob) = SumBytes(ChunksSent(1))

C10_Witness ==
    /\ cl[1].receivedFiles # <<>>
    /\ Len(ChunksSent(1)) > 2
    /\ BlobSize(cl[1].receivedFiles[1].url) = HIGH_WATERMARK + 1

\* C11: a file in the gallery whose assembled bytes are fewer or more than
\* the fileSize its metadata declared is not there as a complete file of the
\* declared size: every file the receiver has finalized holds exactly as many
\* bytes as its size says.
C11_MismatchSurfaced ==
    \A i \in DOMAIN cl[Rx].receivedFiles :
        BlobSize(cl[Rx].receivedFiles[i].url) = cl[Rx].receivedFiles[i].size

\* The chunks send() has queued on channel h and the bytes they hold.
QueuedChunks(h) == SelectSeq(chans[h].buf, IsChunk)
ChunkSent(h) ==
    /\ Len(chans'[h].log) = Len(chans[h].log) + 1
    /\ chans'[h].log[Len(chans'[h].log)].bin

\* C12: the sending page calls channel.send for a chunk only while
\* bufferedAmount is at most HIGH_WATERMARK; a run of startSendingFile that
\* has seen bufferedAmount above HIGH_WATERMARK stays at waitForDrain until
\* the bufferedamountlow handler runs; and the chunk bytes queued on the
\* channel never exceed HIGH_WATERMARK + CHUNK_SIZE.
C12_SendStep ==
    \A h \in DOMAIN chans :
        /\ ChunkSent(h) => bufferedAmount(chans[h]) <= HIGH_WATERMARK
        /\ \A t \in tasks :
              (t.h = h /\ t.at = "waitForDrain" /\ t \notin tasks')
                  => ev'.op \in {"bufferedamountlow"}

C12_QueueBound ==
    \A h \in DOMAIN chans : SumBytes(QueuedChunks(h)) <= HIGH_WATERMARK + CHUNK_SIZE

C12_SendsBelowHighWatermark == [](C12_QueueBound) /\ [][C12_SendStep]_vars

\* ---------------------------------------------------------- claims: relay
IsAck(m) == m.type = "ack"
IsFileChunk(m) == m.type = "file-chunk"
AcksIn(q) == SelectSeq(q, IsAck)
FileChunksIn(q) == SelectSeq(q, IsFileChunk)
FileChunkHandled == ev'.op = "file-chunk"

\* C13: the server's handler of a "file-chunk" message that carries a
\* callback calls it exactly once: with "no-peer" when targetId is not in the
\* directory, and then no chunk is put in flight to anybody; with "ok"
\* otherwise, and then the chunk is put in flight to the target and to nobody
\* else. Without a callback nothing is acknowledged.
C13_AckStep ==
    FileChunkHandled =>
        LET s == ev'.from
            m == ev'.m
            present == Has(peers, m.targetId)
            value == IF present THEN "ok" ELSE "no-peer"
        IN  /\ AcksIn(inbox'[s]) =
                   IF m.ack THEN Append(AcksIn(inbox[s]), Ack(m.id, value))
                   ELSE AcksIn(inbox[s])
            /\ \A id \in Ids \ {s} : AcksIn(inbox'[id]) = AcksIn(inbox[id])
            /\ \A id \in Ids :
                  FileChunksIn(inbox'[id]) =
                      IF present /\ id = m.targetId
                      THEN Append(FileChunksIn(inbox[id]), Forwarded(m))
                      ELSE FileChunksIn(inbox[id])
            /\ (value = "no-peer") = ~Has(peers', m.targetId)

C13_OneAckPerChunk == [][C13_AckStep]_vars

\* Reached: the sending client's callback has been called with "ok" for its
\* first chunk and with "no-peer" for its second, the target having left in
\* between, and the target got the first chunk only.
C13_Witness ==
    /\ cl[RelaySender].acks = <<[id |-> 0, value |-> "ok"], [id |-> 1, value |-> "no-peer"]>>
    /\ cl[RelaySender].state = "cancelled"
    /\ ~Has(peers, RelayTarget)
    /\ \A id \in Ids : FileChunksIn(inbox[id]) = <<>>

\* The chunkIndex values of the chunks of client s in q, in the order of q.
IsSliceOf(s, m) == m.chunk.from = s
RECURSIVE IndicesOf(_, _)
IndicesOf(s, q) ==
    IF q = <<>> THEN <<>>
    ELSE IF IsSliceOf(s, Head(q)) THEN <<Head(q).chunkIndex>> \o IndicesOf(s, Tail(q))
    ELSE IndicesOf(s, Tail(q))
Counting(q) == \A k \in DOMAIN q : q[k] = k - 1

\* C14: the server puts each "file-chunk" it handles in flight to its target
\* once, behind everything already in flight to the target; and the chunks
\* of the sending client, which emits a chunk only when the one before is
\* acknowledged, reach the target once each with chunkIndex 0, 1, 2, ... in
\* this order, whatever other clients send to the same target.
C14_ForwardStep ==
    (FileChunkHandled /\ Has(peers, ev'.m.targetId))
        => /\ inbox'[ev'.m.targetId] \in
                  {Append(inbox[ev'.m.targetId], Forwarded(ev'.m)),
                   Append(Append(inbox[ev'.m.targetId], Forwarded(ev'.m)),
                          Ack(ev'.m.id, "ok"))}
           /\ Forwarded(ev'.m).chunk = ev'.m.chunk
           /\ Forwarded(ev'.m).chunkIndex = ev'.m.chunkIndex

C14_InSendOrder ==
    Counting(IndicesOf(RelaySender,
                       cl[RelayTarget].got \o FileChunksIn(inbox[RelayTarget])))

C14_ForwardedOnceInOrder == [](C14_InSendOrder) /\ [][C14_ForwardStep]_vars

\* Reached: the target has received every chunk of the sending client, and a
\* chunk of another client between two of them.
C14_Witness ==
    /\ Len(IndicesOf(RelaySender, cl[RelayTarget].got)) = MaxIndex + 1
    /\ cl[RelaySender].state = "done"
    /\ \E k \in DOMAIN cl[RelayTarget].got :
          /\ 1 < k /\ k < Len(cl[RelayTarget].got)
          /\ cl[RelayTarget].got[k].chunk.from = Foreign

\* --------------------------------------------------- claims: disconnection
\* What happens on the pages and the server with no user doing anything:
\* suspended handlers resume, messages in flight arrive, channels open,
\* carry their frames and close.
Unattended ==
    \/ \E t \in tasks : IceConfigFetched(t)
    \/ \E t \in tasks : OfferCreated(t)
    \/ \E t \in tasks : RemoteDescriptionSet(t)
    \/ \E t \in tasks : AnswerCreated(t)
    \/ \E i \in DOMAIN cl : PageDeliver(i)
    \/ \E h \in DOMAIN chans : SenderChannelOpen(h) /\ UNCHANGED dirVars
    \/ \E h \in DOMAIN chans : ReceiverDataChannel(h) /\ UNCHANGED dirVars
    \/ \E t \in tasks : ReadChunkResolved(t) /\ UNCHANGED dirVars
    \/ \E h \in DOMAIN chans : Transmit(h) /\ UNCHANGED dirVars
    \/ \E h \in DOMAIN chans : Receive(h) /\ UNCHANGED dirVars
    \/ \E h \in DOMAIN chans : RxChannelClose(h) /\ UNCHANGED dirVars
Settled == ~ENABLED Unattended

\* The session of page i: the connection it holds was offered by s to r and
\* r has accepted the offer.
SessionOf(i) == cl[i].peerConnection
InSession(i) ==
    /\ SessionOf(i) # 0
    /\ i \in {chans[SessionOf(i)].s, chans[SessionOf(i)].r}
    /\ chans[SessionOf(i)].rPc # "none"

\* C15: when the socket of an endpoint of a session has disconnected and
\* everything that happens without a user has happened, neither page is
\* busy: the busy flags are released without a further click.
C15_ReleasedAfterDisconnect ==
    (/\ InSession(Sender)
     /\ chans[SessionOf(Sender)].r = Target
     /\ ~Connected(Target)
     /\ Settled)
        => ~cl[Sender].isBusy /\ ~cl[Target].isBusy

\* C16: when the onerror or the onclose handler of the receiving page's
\* channel has run, nothing is left of a transfer that was not finalized:
\* rx.active is false, rx.meta null, rx.chunks empty and rx.received 0.
C16_LossStep ==
    ev'.op \in {"error", "close"} => cl'[Rx].rx = NoRx

C16_PartialBufferDiscarded == [][C16_LossStep]_vars

\* ------------------------------------------------------ claims: signaling
SignalHandled == ev'.op = "signal"
Directory == <<peers, nextId>>

\* C17: an "offer", "answer" or "ice-candidate" whose targetId is not in the
\* directory when its handler runs has no effect: nothing is put in flight
\* to any connection, its source included, and the directory is as before.
C17_DropStep ==
    (SignalHandled /\ ~Has(peers, ev'.targetId))
        => /\ inbox' = inbox
           /\ Directory' = Directory
           /\ lastList' = lastList

C17_AbsentTargetDropped == [][C17_DropStep]_vars

\* Reached: a connection that was registered has left and an "ice-candidate"
\* a registered connection addressed to it has just been handled, with
\* nothing in flight to anybody.
C17_Witness ==
    /\ ev.op = "signal" /\ ev.kind = "ice-candidate"
    /\ ev.targetId < nextId
    /\ ~Has(peers, ev.targetId)
    /\ Has(peers, ev.from)
    /\ \A id \in Ids : inbox[id] = <<>>

\* C18: a relayed "offer", "answer" or "ice-candidate" is put in flight to
\* the connection targetId names and to no other, once, as the last message
\* in flight to it, with the kind and the payload it was sent with and with
\* the id of the socket it came from as fromId, whatever fromId the payload
\* names.
Relayed(kind, from, payload, m) ==
    /\ m.type = kind
    /\ m.fromId = from
    /\ IF kind = "offer" THEN m.offer = payload /\ m.fromName = Get(peers, from).name
       ELSE IF kind = "answer" THEN m.answer = payload
       ELSE m.candidate = payload

C18_RelayStep ==
    SignalHandled =>
        /\ \A id \in Ids \ {ev'.targetId} : inbox'[id] = inbox[id]
        /\ \/ inbox'[ev'.targetId] = inbox[ev'.targetId]
           \/ /\ Len(inbox'[ev'.targetId]) = Len(inbox[ev'.targetId]) + 1
              /\ SubSeq(inbox'[ev'.targetId], 1, Len(inbox[ev'.targetId]))
                     = inbox[ev'.targetId]
              /\ Relayed(ev'.kind, ev'.from, ev'.payload,
                         inbox'[ev'.targetId][Len(inbox'[ev'.targetId])])
        /\ (Has(peers, ev'.targetId) /\ ev'.targetId # ev'.from)
              => inbox'[ev'.targetId] # inbox[ev'.targetId]

C18_ToTargetFromSource == [][C18_RelayStep]_vars

\* Reached: an offer whose payload names connection 2 as fromId has been
\* relayed from connection 3 to connection 1, and is in flight to it, with
\* fromId 3.
C18_Witness ==
    /\ ev.op = "signal" /\ ev.kind = "offer"
    /\ ev.from = 3 /\ ev.targetId = 1 /\ ev.payload.fromId = 2
    /\ inbox[1] # <<>>
    /\ inbox[1][Len(inbox[1])].type = "offer"
    /\ inbox[1][Len(inbox[1])].fromId = 3
    /\ inbox[2] = <<>> /\ inbox[3] = <<>>

\* C19: handling an "offer", "answer" or "ice-candidate", delivered or
\* dropped, leaves the directory (ids, names, modes, in their order) as it
\* is and puts no "peer-list" in flight to anybody.
C19_StatelessStep ==
    SignalHandled =>
        /\ peers' = peers
        /\ nextId' = nextId
        /\ \A id \in Ids :
              SelectSeq(inbox'[id], IsPeerList) = SelectSeq(inbox[id], IsPeerList)

C19_RelayStateless == [][C19_StatelessStep]_vars

\* Reached: an answer has been relayed between two registered connections
\* after the directory has changed, with a "peer-list" still in flight.
C19_Witness ==
    /\ ev.op = "signal" /\ ev.kind = "answer"
    /\ Has(peers, ev.targetId) /\ ev.targetId # ev.from
    /\ Len(peers) < nextId - 1
    /\ \E id \in Ids : PeerListsIn(inbox[id]) > 0
    /\ inbox[ev.targetId][Len(inbox[ev.targetId])].type = "answer"


\* ------------------------------------------------------ claims: candidates
\* The candidates page i has received for the connection h while its end of h
\* had no remote description, in the order of arrival.
EarlyOf(i, h) ==
    LET IsEarly(x) == x.early /\ x.k.h = h
        early == SelectSeq(cl[i].heard, IsEarly)
    IN  [j \in DOMAIN early |-> early[j].k]
\* The elements of the sequence a are in the sequence b in the same order.
InOrderIn(a, b) ==
    LET InA(x) == x \in Range(a)
    IN  SelectSeq(b, InA) = a
Flushing(i) == \E t \in tasks : t.c = i /\ t.at = "flush"
\* An open end of a connection, of page i, without (pending) or with (applied)
\* its remote description.
KeepsEarly(i, h, open, remote, applied) ==
    open => IF ~remote THEN InOrderIn(EarlyOf(i, h), cl[i].pendingCandidates)
            ELSE Flushing(i) \/ InOrderIn(EarlyOf(i, h), applied)

\* C20: the candidates an endpoint has received for a session before that
\* session's remote description was set are in pendingCandidates, in arrival
\* order, while the session's connection has no remote description, and are
\* among the candidates applied to that connection, in arrival order, once it
\* has one and the flush is over.
C20_EarlyCandidatesApplied ==
    \A h \in DOMAIN chans :
        /\ KeepsEarly(chans[h].s, h, chans[h].sPc = "open", chans[h].sRemote,
                      chans[h].sApplied)
        /\ KeepsEarly(chans[h].r, h, chans[h].rPc = "open", chans[h].rRemote,
                      chans[h].rApplied)

\* The page that gathered the candidate k, and the other end of page i's
\* connection h.
Emitter(k) == IF k.e = "s" THEN chans[k.h].s ELSE chans[k.h].r
Counterpart(h, i) == IF chans[h].s = i THEN chans[h].r ELSE chans[h].s

\* C21: every candidate a page has given to a connection of its own was
\* gathered by the other end of that connection, the counterpart of the
\* session, and for that connection.
C21_OnlyFromCounterpart ==
    \A h \in DOMAIN chans :
        /\ \A j \in DOMAIN chans[h].sApplied :
              chans[h].sApplied[j].h = h /\ Emitter(chans[h].sApplied[j]) = chans[h].r
        /\ \A j \in DOMAIN chans[h].rApplied :
              chans[h].rApplied[j].h = h /\ Emitter(chans[h].rApplied[j]) = chans[h].s

\* ------------------------------------------------------- claims: handlers
\* C22: a "set-mode" whose argument is neither "sender" nor "receiver" leaves
\* every stored record as it is and emits nothing: no mode-confirmed, no
\* peer-list, and no message of any other kind to the caller.
C22_IgnoredStep ==
    (ev'.op = "set-mode" /\ ev'.mode \notin {"sender", "receiver"})
        => peers' = peers /\ inbox' = inbox

C22_InvalidModeIgnored == [][C22_IgnoredStep]_vars

\* Reached: a registered receiver, listed in a sender's view, has sent a
\* "set-mode" with another value.
C22_Witness ==
    /\ ev.op = "set-mode"
    /\ ev.mode = "bogus"
    /\ ModeOf(peers, ev.id) = "receiver"
    /\ \E p \in Range(peers) : p.mode = "sender"

\* C23: in every state of the server the keys of the directory are the
\* sockets that are connected, one record for each: a socket's record is
\* there from its "connection" event to its "disconnect" event. (The Map is
\* modelled by its records in insertion order, each under its id field.)
C23_KeysAreLiveConnections ==
    /\ {peers[i].id : i \in DOMAIN peers} = ev.live
    /\ Len(peers) = Cardinality(ev.live)

\* Reached: a socket has disconnected while two others, of the same name as
\* each other or not, stay connected.
C23_Witness ==
    /\ ev.op = "disconnect"
    /\ Cardinality(ev.live) = 2
    /\ Len(peers) = 2

\* C24: the removal of an id that is not in the directory leaves the
\* directory as it is, and the peer-list the recompute that follows emits to
\* each peer is the view that peer had of the directory before; a second
\* removal of an id leaves the directory as the first removal left it.
C24_RemovalStep ==
    ev'.op = "remove" =>
        /\ ~Has(peers, ev'.id) =>
              /\ peers' = peers
              /\ \A p \in Range(peers) :
                    inbox'[p.id] = Append(inbox[p.id], PeerListMsg(getPeerListFor(peers, p.id)))
        /\ (ev.op = "remove" /\ ev.id = ev'.id) => peers' = peers

C24_AbsentRemovalIsNoOp == [][C24_RemovalStep]_vars

\* Reached: an id that was not in the directory has been removed from a
\* directory that holds a sender and a receiver, and the sender, who had the
\* receiver in its view, has been sent that view again.
C24_Witness ==
    /\ ev.op = "remove"
    /\ ~ev.had
    /\ \E p \in Range(peers) :
          /\ p.mode = "sender"
          /\ lastList[p.id] # <<>>
          /\ inbox[p.id] = <<PeerListMsg(lastList[p.id])>>

\* The self-identity messages a step emits to the socket j.
SelfIdentitiesTo(j) ==
    Cardinality({k \in (Len(inbox[j]) + 1)..Len(inbox'[j]) :
                    inbox'[j][k].type = "self-identity"})
\* The ids a peer-list message names.
Listed(list) == {list[k].id : k \in DOMAIN list}

\* C25: the "connection" event registers the socket with mode "none" and
\* emits to it its self-identity, with its id and the name stored for it,
\* and after that its first peer-list; no other step emits a self-identity
\* and none goes to another socket.
C25_ConnectionStep ==
    /\ ev'.op = "connection" =>
          /\ ~Has(peers, ev'.id)
          /\ Has(peers', ev'.id)
          /\ Get(peers', ev'.id).mode = "none"
          /\ inbox'[ev'.id] = <<[type |-> "self-identity", id |-> ev'.id,
                                 name |-> Get(peers', ev'.id).name],
                                PeerListMsg(<<>>)>>
    /\ \A j \in Ids :
          SelfIdentitiesTo(j) = IF ev'.op = "connection" /\ ev'.id = j THEN 1 ELSE 0

\* A peer whose mode is "none" (it has sent no valid set-mode yet) is in no
\* other peer's view: not in the view computed for it, not in a peer-list in
\* flight to it, not in the last one it received.
C25_UnseenUntilModeSet ==
    \A p \in Range(peers) :
        p.mode = "none" =>
            \A j \in Ids \ {p.id} :
                /\ p.id \notin Listed(getPeerListFor(peers, j))
                /\ p.id \notin Listed(lastList[j])
                /\ \A k \in DOMAIN inbox[j] :
                      IsPeerList(inbox[j][k]) => p.id \notin Listed(inbox[j][k].list)

C25_NewPeerIdentifiedAndUnseen == [](C25_UnseenUntilModeSet) /\ [][C25_ConnectionStep]_vars

\* Reached: a socket has just connected while a sender with a receiver in its
\* view is registered, and the sender's recomputed view is in flight.
C25_Witness ==
    /\ ev.op = "connection"
    /\ Get(peers, ev.id).mode = "none"
    /\ \E p \in Range(peers) :
          /\ p.mode = "sender"
          /\ inbox[p.id] # <<>>
          /\ IsPeerList(inbox[p.id][Len(inbox[p.id])])
          /\ inbox[p.id][Len(inbox[p.id])].list # <<>>

\* The mode-confirmed messages a step emits to the socket j.
ModeConfirmedIn(j) ==
    {inbox'[j][k].mode : k \in {n \in (Len(inbox[j]) + 1)..Len(inbox'[j]) :
                                    inbox'[j][n].type = "mode-confirmed"}}
ModeConfirmedCount(j) ==
    Cardinality({k \in (Len(inbox[j]) + 1)..Len(inbox'[j]) :
                    inbox'[j][k].type = "mode-confirmed"})

\* C27: a "set-mode" of "sender" or "receiver" from a registered peer stores
\* that mode for the peer, whatever mode was stored before, leaves every other
\* record and the peer's id and name as they are, and emits one
\* mode-confirmed, carrying that mode, to that peer and to no other.
C27_SetModeStep ==
    (ev'.op = "set-mode" /\ ev'.mode \in {"sender", "receiver"}) =>
        /\ Len(peers') = Len(peers)
        /\ \A i \in DOMAIN peers :
              IF peers[i].id = ev'.id
              THEN peers'[i] = [id |-> peers[i].id, name |-> peers[i].name, mode |-> ev'.mode]
              ELSE peers'[i] = peers[i]
        /\ \A j \in Ids :
              IF j = ev'.id
              THEN ModeConfirmedCount(j) = 1 /\ ModeConfirmedIn(j) = {ev'.mode}
              ELSE ModeConfirmedCount(j) = 0

C27_ValidModeStored == [][C27_SetModeStep]_vars

\* Reached: a peer stored as a receiver has set its mode to "sender" while
\* another receiver and another sender are registered.
C27_Witness ==
    /\ ev.op = "set-mode"
    /\ ev.was = "receiver"
    /\ ev.mode = "sender"
    /\ ModeOf(peers, ev.id) = "sender"
    /\ \E p, q \in Range(peers) :
          p.id # ev.id /\ q.id # ev.id /\ p.mode = "receiver" /\ q.mode = "sender"

\* ------------------------------------------------- claims: configuration
\* C26: every response of the endpoint lists the three default STUN servers,
\* whatever the environment and whatever the credential service answers;
\* every promise getIceConfig returns is fulfilled, with a list that is not
\* empty, and with the fixed STUN-only list when the fetch fails, answers
\* with a status that is not OK or with a body that is no JSON.
C26_EndpointListsDefaults ==
    ev.sent # <<>> =>
        /\ Len(ev.sent[1].iceServers) >= 3
        /\ SubSeq(ev.sent[1].iceServers, 1, 3) = DefaultStun

C26_ConfigResolved ==
    ev.op \in {"settled", "cached"} =>
        /\ ev.result.settled = "fulfilled"
        /\ ev.result.value # <<>>
        /\ ev.result.value[1].iceServers # <<>>
        /\ ev.how \in {"rejected", "notOk", "notJson"} => ev.result.value[1] = FallbackConfig
        /\ cl[1].ICE_CONFIG = ev.result.value

C26_ConfigNeverFails == C26_EndpointListsDefaults /\ C26_ConfigResolved

\* Reached: with the credential service configured and not answering with a
\* list, the endpoint has answered one fetch, the other fetch has failed, and
\* getIceConfig has returned the fixed list.
C26_Witness ==
    /\ ev.env.METERED_API_KEY /\ ev.env.METERED_APP_NAME /\ ~ev.env.TURN_URL
    /\ ev.sent # <<>>
    /\ ev.sent[1].iceServers = DefaultStun
    /\ ev.op = "settled"
    /\ ev.how = "rejected"
    /\ ev.result.value = <<FallbackConfig>>

\* ----------------------------------------------------- claims: frames
\* The metadata frame startSendingFile sends for a file.
MetadataOf(file) ==
    MetadataFrame(file.name, file.size,
                  IF file.type = "" THEN "application/octet-stream" ELSE file.type)
Running(h) == \E t \in tasks : t.fn = "startSendingFile" /\ t.h = h

\* The frames send() has accepted on a channel for the file: the metadata
\* frame first and once; then chunks of 1..CHUNK_SIZE bytes, the first at
\* offset 0 and each at the end of the one before; a "done" frame last, once,
\* and only when the chunks end at file.size.
FramesInOrder(log, file) ==
    /\ log # <<>> => log[1] = MetadataOf(file)
    /\ \A k \in 2..Len(log) :
          IF log[k].bin
          THEN /\ log[k].len >= 1 /\ log[k].len <= CHUNK_SIZE
               /\ log[k].off = IF k = 2 THEN 0 ELSE log[k - 1].off + log[k - 1].len
               /\ log[k].off + log[k].len <= file.size
               /\ k > 2 => log[k - 1].bin
          ELSE /\ log[k] = DoneFrame
               /\ k = Len(log)
               /\ IF k = 2 THEN file.size = 0
                  ELSE log[k - 1].bin /\ log[k - 1].off + log[k - 1].len = file.size

\* A step in which readChunk rejects, or in which a run of startSendingFile
\* ends on a channel that is not open, sends nothing; once no run is left
\* nothing is sent on the channel any more.
C28_StopStep ==
    \A h \in DOMAIN chans :
        /\ (ev'.op = "readError" /\ ev'.h = h) =>
              ~Running(h)' /\ chans'[h].log = chans[h].log
        /\ (Running(h) /\ chans[h].sState # "open") => chans'[h].log = chans[h].log
        /\ (chans[h].log # <<>> /\ ~Running(h)) => chans'[h].log = chans[h].log

\* C28: for one file the sending page sends the metadata frame, then the
\* chunks, of CHUNK_SIZE bytes at most and one after the other from offset
\* 0, then one "done" frame once the chunks have covered file.size bytes; it
\* stops, without a "done" frame, when it finds the channel not open or when
\* a read fails.
C28_FramesInOrder ==
    /\ [](\A h \in DOMAIN chans :
             chans[h].file # <<>> => FramesInOrder(chans[h].log, chans[h].file[1]))
    /\ [][C28_StopStep]_vars

\* Reached: the "done" frame of a file of more than HIGH_WATERMARK bytes has
\* been sent, after the metadata frame and 65 chunks, the last of one byte.
C28_Witness ==
    /\ chans[1].file[1].size = HIGH_WATERMARK + 1
    /\ Len(chans[1].log) = 67
    /\ chans[1].log[67] = DoneFrame
    /\ chans[1].log[66].bin /\ chans[1].log[66].len = 1

\* Whether a metadata frame is in effect on the receiving page.
InEffect(c) == c.rx.active /\ c.rx.meta # <<>>

\* A binary frame that arrives while no metadata frame is in effect changes
\* nothing on the page; rx.chunks gets a new element only from a binary frame
\* that arrives while one is, and that frame goes to its end.
C29_ChunkStep ==
    /\ (ev'.op = "message" /\ ev'.data.bin /\ ~InEffect(cl[Rx])) => cl'[Rx] = cl[Rx]
    /\ (cl'[Rx].rx.chunks # cl[Rx].rx.chunks /\ cl'[Rx].rx.chunks # <<>>) =>
          /\ ev'.op = "message" /\ ev'.data.bin
          /\ InEffect(cl[Rx])
          /\ cl'[Rx].rx.chunks = Append(cl[Rx].rx.chunks, ev'.data)

\* C29: a chunk received while rx.active is false or rx.meta is null, after a
\* finalization as well, is dropped: rx.chunks, rx.received and isBusy stay as
\* they are. The page holds chunks and counted bytes only while a metadata
\* frame is in effect, from that frame to the finalization or reset.
C29_ChunkOutsideTransferDropped ==
    /\ [](~InEffect(cl[Rx]) => cl[Rx].rx.chunks = <<>> /\ cl[Rx].rx.received = 0)
    /\ [][C29_ChunkStep]_vars

\* Reached: a file of one byte is in the gallery and a chunk of two bytes
\* has arrived after it was finalized, with no metadata frame since.
C29_Witness ==
    /\ ev.op = "message"
    /\ ev.data.bin /\ ev.data.len = 2
    /\ cl[Rx].receivedFiles # <<>>
    /\ BlobSize(cl[Rx].receivedFiles[1].url) = 1
    /\ ~cl[Rx].rx.active
    /\ cl[Rx].rx.chunks = <<>>

\* ---------------------------------------------------- claims: completion
\* C30: once the sending page has started to send the file on the open
\* channel, and nothing fails, the receiving page eventually has the file in
\* its gallery and isBusy is false on both pages.
C30_TransferCompletes ==
    (chans[1].log # <<>>) ~>
        (cl[1].receivedFiles # <<>> /\ ~cl[1].isBusy /\ ~cl[2].isBusy)

\* ------------------------------------------------ claims: stale callbacks
\* The receiving end of channel h fires its onclose in this step.
OnCloseFires(h) == chans[h].rState = "closing" /\ chans'[h].rState = "closed"

\* C31: while the receiving page is in a session (it holds a channel), the
\* onclose of a channel that closePeerConnection has replaced leaves the
\* page's isBusy as it is: only the session the page is in clears it.
C31_StaleCloseStep ==
    \A h \in DOMAIN chans :
        LET c == cl[chans[h].r]
        IN  OnCloseFires(h) /\ c.dataChannel # 0 /\ c.dataChannel # h
                => cl'[chans[h].r].isBusy = c.isBusy
C31_StaleCallbacksKeepBusy == [][C31_StaleCloseStep]_vars

\* ------------------------------------------------ claims: queued frames
\* The sending page of channel h has sent the "done" frame on it and has
\* released isBusy.
DoneQueued(h) ==
    /\ chans[h].log # <<>>
    /\ chans[h].log[Len(chans[h].log)] = DoneFrame
    /\ ~cl[chans[h].s].isBusy

\* A handler of a user action on page i runs in this step.
UserActs(i) ==
    /\ ev'.op \in {"click", "fileSelected", "selectPeer", "resetToModeScreen"}
    /\ ev'.c = i

\* C32: once the sending page has queued "done" on a channel and is idle
\* again, nothing its user does (a click on Send among it) takes away a frame
\* that is still queued in the channel or on its way to the receiver.
C32_SenderStep ==
    \A h \in DOMAIN chans :
        DoneQueued(h) /\ UserActs(chans[h].s)
            => chans'[h].buf = chans[h].buf /\ chans'[h].wire = chans[h].wire
C32_QueuedBytesKept == [][C32_SenderStep]_vars

\* ------------------------------------------------ claims: relayed sessions
\* C33: while RelaySender is sending its file to RelayTarget and a chunk of
\* it has reached the target, every "file-chunk" the target receives after
\* that chunk is RelaySender's: what another sender addresses to the target
\* during the session is not delivered to it.
C33_OneSenderPerSession ==
    LET got == cl[RelayTarget].got
    IN  cl[RelaySender].state = "sending"
            => \A i, j \in DOMAIN got :
                  i < j /\ got[i].chunk.from = RelaySender
                      => got[j].chunk.from = RelaySender

\* ------------------------------------------------ claims: stored mode
\* C34: when nothing is in flight from the server, a page that a sending
\* page's list shows is a page whose own myMode is "receiver": a page that
\* has gone back to the mode screen is in no sender's view any more.
C34_ViewsFollowLocalMode ==
    (\A id \in Ids : inbox[id] = <<>>)
        => \A i, j \in DOMAIN cl :
              cl[j].myMode = "sender" /\ Has(cl[j].peerList, i)
                  => cl[i].myMode = "receiver"

\* ------------------------------------------------ claims: selection
\* C35: when a page in sender mode has handled a "peer-list" message, its
\* selectedPeerId is null or the id of a peer of that list, and a selected
\* peer that the list does not have is deselected with the Send button
\* disabled; and whenever the page is in sender mode, connected, and no
\* "peer-list" is in flight to it, its selectedPeerId is null or the id of a
\* peer of the list it received last.
C35_PeerListStep ==
    (ev'.op = "deliver" /\ ev'.m.type = "peer-list" /\ cl[ev'.c].myMode = "sender")
        => LET c == cl[ev'.c]
               d == cl'[ev'.c]
           IN  /\ d.selectedPeerId = 0 \/ Has(ev'.m.list, d.selectedPeerId)
               /\ c.selectedPeerId # 0 /\ ~Has(ev'.m.list, c.selectedPeerId)
                      => d.selectedPeerId = 0 /\ d.btnSendDisabled
               /\ Has(ev'.m.list, c.selectedPeerId)
                      => d.selectedPeerId = c.selectedPeerId
C35_SelectedInList ==
    \A i \in DOMAIN cl :
        (/\ cl[i].myMode = "sender"
         /\ Connected(i)
         /\ \A k \in DOMAIN inbox[i] : inbox[i][k].type # "peer-list")
            => cl[i].selectedPeerId = 0 \/ Has(lastList[i], cl[i].selectedPeerId)
C35_SelectionFollowsList == [](C35_SelectedInList) /\ [][C35_PeerListStep]_vars
\* The page had a peer selected and a file picked, and the list it has just
\* handled does not have the peer.
C35_Witness ==
    /\ ev.op = "deliver" /\ ev.m.type = "peer-list"
    /\ cl[ev.c].myMode = "sender"
    /\ cl[ev.c].selectedFile # <<>>
    /\ ev.sel # 0 /\ ~Has(ev.m.list, ev.sel)
    /\ cl[ev.c].selectedPeerId = 0 /\ cl[ev.c].btnSendDisabled
    /\ Len(ev.m.list) = 1
    /\ Len(cl[ev.c].peerList) = 1
====
